---------------------------- MODULE Spec2Model ----------------------------
(***************************************************************************)
(* Frame extraction and normalisation engine of Spritemancer               *)
(* (backend/app/services/stages/stage_7_post_processing.py) and the stage  *)
(* 7 driver and the full run of the pipeline orchestrator                  *)
(* (backend/app/services/pipeline_orchestrator.py).                        *)
(*                                                                         *)
(* Images.  A canvas is a white raster of w x h pixels that carries a      *)
(* sequence of solid, axis-parallel rectangles of one grey level each      *)
(* (b = g = r = v).  Rectangles of a canvas never overlap.  Every image    *)
(* the engine handles is a window [x, y, w, h] of the canvas (numpy        *)
(* slices are views), so a crop is a window and its pixels are the         *)
(* rectangles of the canvas clipped to the window.  The OpenCV primitives  *)
(* are modelled by their pixel-exact effect on such rasters: threshold,    *)
(* 3x3 elliptical (cross) opening and closing with OpenCV's border rule    *)
(* (outside pixels never erode and never dilate), directional opening,     *)
(* 8-connected components with area and bounding box, image moments.      *)
(* The blobs and sprites of one canvas lie at least three pixels apart,    *)
(* which makes each of them one connected component of every window; the   *)
(* frame lines drawn around grid cells lie on the cell's outermost pixels. *)
(* The masks given to the noise cleaner alone also hold rectangles one to  *)
(* three pixels apart, side by side in the same rows.                      *)
(* The threshold matte is the one place where colours are kept: its       *)
(* sprites are small rasters of (B, G, R) pixels.  Of the animated tile     *)
(* generator (backend/app/services/tileset_generation/                      *)
(* animated_generator.py) only the sizes of the strip and its frames are    *)
(* modelled.                                                               *)
(*                                                                         *)
(* Numbers.  Python floats are replaced by exact integer comparisons       *)
(* (c < 0.5*e as 2c < e, c >= 0.8*e as 10c >= 8e, g > 1.3*e as 10g > 13e,  *)
(* std < 15 as n*Q - S*S < 225*n*n); a pivot is a pair of fractions        *)
(* <<numerator, denominator>>.                                             *)
(***************************************************************************)
EXTENDS Integers, Sequences, FiniteSets, TLC

VARIABLES
    entry,        \* the entry point under call
    inp,          \* its arguments
    pc,           \* position inside the call
    contour,      \* (contour_count, bboxes) of count_sprites_by_contour
    use_contour,  \* extract_frames_hybrid: the arbitration flags
    rule,         \* extract_frames_hybrid: the branch of the arbitration taken
    result,       \* PostProcessingResult, a pivot triple, or a raised error
    normalized,   \* list returned by normalize_frames
    opc,          \* run_stage_7: position of the coroutine
    job,          \* run_stage_7: the spritesheet bytes and collaborators' answers
    loc,          \* run_stage_7: local variables
    stages,       \* PipelineState.stages: stage number -> status
    frame_urls,   \* PipelineState.frame_urls
    pivots,       \* PipelineState.pivots
    events,       \* observable effects: notifications, network calls, uploads
    calls,        \* concurrent callers: the local variables of each one's call
    history,      \* concurrent callers: what each finished call was given and did
    full_pc,      \* run_full_pipeline: the stage under way and the position in it
    state,        \* run_full_pipeline: PipelineState (status, stages, what is set)
    emitted       \* run_full_pipeline: what on_stage_update was given, in order

engine_vars == <<entry, inp, pc, contour, use_contour, rule, result, normalized>>
pipeline_vars == <<opc, job, loc, stages, frame_urls, pivots, events>>
concurrent_vars == <<calls, history>>
full_vars == <<full_pc, state, emitted>>
vars == <<entry, inp, pc, contour, use_contour, rule, result, normalized,
          opc, job, loc, stages, frame_urls, pivots, events, calls, history,
          full_pc, state, emitted>>

---------------------------------------------------------------------------
(* Program constants *)

White == 255
BinaryThreshold == 250
MinArea == 50
DefaultMinArea == 100
MinSpriteArea == 500
MaxBorderWidth == 5
MinBorderCell == 20
BorderStd == 15
BorderMean == 80
RowThresholdMin == 50
Padding == 5

(* Bounds of the model *)

MaxExpected == 3
MaxGemini == 4
MaxHint == 2
MaxBlobs == 4
MaxGrid == 2
MaxMaskH == 7
MaxTarget == 3
MaxSprite == 3
MaxGap == 3
MaxMatteW == 4
MaxStrip == 5
MaxTile == 2

None == "None"

---------------------------------------------------------------------------
(* Arithmetic and sequences *)

Max(a, b) == IF a >= b THEN a ELSE b
Min(a, b) == IF a <= b THEN a ELSE b
Abs(a) == IF a >= 0 THEN a ELSE 0 - a

\* Python's // (floor division) for a positive divisor
FloorDiv(a, b) == IF a >= 0 THEN a \div b ELSE 0 - ((0 - a + b - 1) \div b)

RECURSIVE Sum(_)
Sum(s) == IF s = <<>> THEN 0 ELSE Head(s) + Sum(Tail(s))

RECURSIVE SeqOfSet(_)
SeqOfSet(S) == IF S = {} THEN <<>>
               ELSE LET e == CHOOSE e \in S : TRUE IN <<e>> \o SeqOfSet(S \ {e})

SumOver(S, f) == LET seq == SeqOfSet(S) IN Sum([i \in 1..Len(seq) |-> f[seq[i]]])

\* math.ceil(math.sqrt(n)) for n >= 0
CeilSqrt(n) == CHOOSE k \in 0..(n + 1) : k * k >= n /\ (k = 0 \/ (k - 1) * (k - 1) < n)

---------------------------------------------------------------------------
(* Rasters: rectangles, windows, masks *)

Rect(x, y, w, h) == [x |-> x, y |-> y, w |-> w, h |-> h]
Area(r) == r.w * r.h

\* the pixels of r that lie inside window win, in window coordinates
Clip(r, win) ==
    LET x1 == Max(r.x, win.x)
        y1 == Max(r.y, win.y)
        x2 == Min(r.x + r.w, win.x + win.w)
        y2 == Min(r.y + r.h, win.y + win.h)
    IN  Rect(x1 - win.x, y1 - win.y, Max(x2 - x1, 0), Max(y2 - y1, 0))

Overlaps(r, win) == Clip(r, win).w > 0 /\ Clip(r, win).h > 0

\* numpy basic slicing a[y1:y2, x1:x2] of a window (indices >= 0), clipped to it
Slice(win, x1, y1, x2, y2) ==
    LET cx1 == Min(x1, win.w)
        cy1 == Min(y1, win.h)
        cx2 == Min(x2, win.w)
        cy2 == Min(y2, win.h)
    IN  Rect(win.x + cx1, win.y + cy1, Max(cx2 - cx1, 0), Max(cy2 - cy1, 0))

\* bounding box of a non-empty set of rectangles
BoundingRect(rs) ==
    LET x1 == CHOOSE v \in {r.x : r \in rs} : \A r \in rs : v <= r.x
        y1 == CHOOSE v \in {r.y : r \in rs} : \A r \in rs : v <= r.y
        x2 == CHOOSE v \in {r.x + r.w : r \in rs} : \A r \in rs : v >= r.x + r.w
        y2 == CHOOSE v \in {r.y + r.h : r \in rs} : \A r \in rs : v >= r.y + r.h
    IN  Rect(x1, y1, x2 - x1, y2 - y1)

PixelCount(rs) == SumOver(rs, [r \in rs |-> Area(r)])

\* the foreground rectangles of a canvas seen through a window after
\* cv2.threshold(gray, 250, 255, THRESH_BINARY_INV): grey <= 250 is foreground
Foreground(canvas, win) ==
    {Clip(canvas.rects[i], win) : i \in {j \in 1..Len(canvas.rects) :
         canvas.rects[j].v <= BinaryThreshold /\ Overlaps(canvas.rects[j], win)}}

---------------------------------------------------------------------------
(* Noise removal: a binary image is [w, h, comps], comps the set of its    *)
(* 8-connected components, each a set of disjoint rectangles.              *)

Binary(w, h, pieces) == [w |-> w, h |-> h, comps |-> {{p} : p \in pieces}]

\* the rows (or columns) a..b of a side that a one-pixel gap to the image
\* border lets the closing fill: the ends survive only on the border itself
Trim(a, b, n) == <<a + (IF a = 0 THEN 0 ELSE 1), b - (IF b = n - 1 THEN 0 ELSE 1)>>

\* opening then closing of one solid rectangle p of a w x h image by the 3x3
\* cross: erosion needs the four neighbours (pixels outside the image count
\* as set), dilation gives the rectangle back without the corners that lie
\* off the border, the closing fills a one-pixel gap to the border
MorphRect(p, w, h) ==
    LET lx == IF p.x = 0 THEN 0 ELSE 1
        rx == IF p.x + p.w = w THEN 0 ELSE 1
        ty == IF p.y = 0 THEN 0 ELSE 1
        by == IF p.y + p.h = h THEN 0 ELSE 1
        ex1 == p.x + lx
        ex2 == p.x + p.w - 1 - rx
        ey1 == p.y + ty
        ey2 == p.y + p.h - 1 - by
        tx == Trim(ex1, ex2, w)
        tyy == Trim(ey1, ey2, h)
    IN  IF ex1 > ex2 \/ ey1 > ey2 THEN {}
        ELSE {Rect(p.x, ey1, p.w, ey2 - ey1 + 1)}
             \cup (IF ty = 1 THEN {Rect(ex1, p.y, ex2 - ex1 + 1, 1)} ELSE {})
             \cup (IF by = 1 THEN {Rect(ex1, p.y + p.h - 1, ex2 - ex1 + 1, 1)} ELSE {})
             \cup (IF p.x = 1 /\ tyy[1] <= tyy[2]
                   THEN {Rect(0, tyy[1], 1, tyy[2] - tyy[1] + 1)} ELSE {})
             \cup (IF p.x + p.w = w - 1 /\ tyy[1] <= tyy[2]
                   THEN {Rect(w - 1, tyy[1], 1, tyy[2] - tyy[1] + 1)} ELSE {})
             \cup (IF p.y = 1 /\ tx[1] <= tx[2]
                   THEN {Rect(tx[1], 0, tx[2] - tx[1] + 1, 1)} ELSE {})
             \cup (IF p.y + p.h = h - 1 /\ tx[1] <= tx[2]
                   THEN {Rect(tx[1], h - 1, tx[2] - tx[1] + 1, 1)} ELSE {})

\* what the closing adds between two rectangles p and q of the same rows, q
\* at the right of p behind a gap of one or two columns: a gap pixel is kept
\* by the erosion when the rows above and below it were reached by the
\* dilation too, which leaves out the two rows at each end (none on the border)
Bridge(p, q, w, h) ==
    LET gap == q.x - (p.x + p.w)
        lo == IF p.y = 0 THEN 0 ELSE p.y + 2
        hi == IF p.y + p.h = h THEN h - 1 ELSE p.y + p.h - 3
    IN  IF gap \in {1, 2} /\ p.y = q.y /\ p.h = q.h /\ lo <= hi
        THEN {Rect(p.x + p.w, lo, gap, hi - lo + 1)} ELSE {}

\* the rectangles the closing joins to those of S, directly or in a chain
RECURSIVE Joined(_, _, _, _)
Joined(S, pieces, w, h) ==
    LET T == S \cup {q \in pieces : \E p \in S :
                        Bridge(p, q, w, h) # {} \/ Bridge(q, p, w, h) # {}}
    IN  IF T = S THEN S ELSE Joined(T, pieces, w, h)

\* one component of the cleaned image: the rectangles of G, each opened and
\* closed, and the bridges between them
MorphGroup(G, w, h) ==
    UNION {MorphRect(p, w, h) : p \in G}
        \cup UNION {Bridge(p, q, w, h) : p \in G, q \in G}

\* the cleaned image of the rectangles that the opening leaves something of
MorphJoin(pieces, w, h) ==
    [w |-> w, h |-> h,
     comps |-> {MorphGroup(Joined({p}, pieces, w, h), w, h) : p \in pieces}]

\* remove_noise_morphological(binary, kernel_size=3) of an image whose
\* components are solid rectangles, those closer than three pixels to each
\* other lying side by side in the same rows
remove_noise_morphological(binary) ==
    MorphJoin({p \in UNION binary.comps : MorphRect(p, binary.w, binary.h) # {}},
              binary.w, binary.h)

\* remove_small_components(binary, min_area)
remove_small_components(binary, min_area) ==
    [binary EXCEPT !.comps = {c \in binary.comps : PixelCount(c) >= min_area}]

\* the mask binary[y1:y2, x1:x2] as [w, h, rects]
MaskOf(binary, x1, y1, x2, y2) ==
    LET win == Slice(Rect(0, 0, binary.w, binary.h), x1, y1, x2, y2)
    IN  [w |-> win.w, h |-> win.h,
         rects |-> {Clip(r, win) : r \in {q \in UNION binary.comps : Overlaps(q, win)}}]

---------------------------------------------------------------------------
(* Pivot detection *)

UpperCase == <<"A", "E", "F", "H", "I", "J", "L", "P", "R", "V", "Y", "U", "O", "M">>
LowerCase == <<"a", "e", "f", "h", "i", "j", "l", "p", "r", "v", "y", "u", "o", "m">>

\* str.lower(), character by character
Lower(s) ==
    [i \in 1..Len(s) |->
        IF \E k \in 1..Len(UpperCase) : UpperCase[k] = s[i]
        THEN LowerCase[CHOOSE k \in 1..Len(UpperCase) : UpperCase[k] = s[i]]
        ELSE s[i]]

\* Python's  a in s  for strings
Contains(s, a) ==
    \E i \in 0..(Len(s) - Len(a)) : SubSeq(s, i + 1, i + Len(a)) = a

airborne_actions ==
    { <<"j", "u", "m", "p">>, <<"f", "l", "y">>, <<"l", "e", "a", "p">>,
      <<"h", "o", "v", "e", "r">>, <<"f", "a", "l", "l">>,
      <<"a", "e", "r", "i", "a", "l">>, <<"a", "i", "r">> }

\* number of mask pixels in the rows y1..y2-1
PixelsInRows(mask, y1, y2) ==
    LET band == Rect(0, y1, mask.w, y2 - y1)
    IN  SumOver(mask.rects, [r \in mask.rects |-> Area(Clip(r, band))])

\* detect_airborne_pose without the test  bottom_rows < 1
detect_airborne_pose_NoRowGuard(mask) ==
    LET h == mask.h
        bottom_rows == (15 * h) \div 100
        total_pixels == PixelCount(mask.rects)
        bottom_pixels == PixelsInRows(mask, h - bottom_rows, h)
    IN  IF total_pixels = 0 THEN FALSE
        ELSE 10 * bottom_pixels < total_pixels

\* detect_airborne_pose with the ratio tested against one half
detect_airborne_pose_Half(mask) ==
    LET h == mask.h
        bottom_rows == (15 * h) \div 100
        total_pixels == PixelCount(mask.rects)
        bottom_pixels == PixelsInRows(mask, h - bottom_rows, h)
    IN  IF bottom_rows < 1 THEN FALSE
        ELSE IF total_pixels = 0 THEN FALSE
        ELSE 2 * bottom_pixels < total_pixels

\* detect_airborne_pose(sprite_mask, bottom_threshold=0.15)
detect_airborne_pose(mask) ==
    LET h == mask.h
        bottom_rows == (15 * h) \div 100
        total_pixels == PixelCount(mask.rects)
        bottom_pixels == PixelsInRows(mask, h - bottom_rows, h)
    IN  IF bottom_rows < 1 THEN FALSE
        ELSE IF total_pixels = 0 THEN FALSE
        ELSE 10 * bottom_pixels < total_pixels

\* cv2.moments with m10 and m01 exchanged
Moments_Exchanged(mask) ==
    [m00 |-> White * PixelCount(mask.rects),
     m01 |-> White * SumOver(mask.rects,
                 [r \in mask.rects |-> r.h * ((r.w * (2 * r.x + r.w - 1)) \div 2)]),
     m10 |-> White * SumOver(mask.rects,
                 [r \in mask.rects |-> r.w * ((r.h * (2 * r.y + r.h - 1)) \div 2)])]

\* cv2.moments of a 0/255 mask: m00, m10, m01
Moments(mask) ==
    [m00 |-> White * PixelCount(mask.rects),
     m10 |-> White * SumOver(mask.rects,
                 [r \in mask.rects |-> r.h * ((r.w * (2 * r.x + r.w - 1)) \div 2)]),
     m01 |-> White * SumOver(mask.rects,
                 [r \in mask.rects |-> r.w * ((r.h * (2 * r.y + r.h - 1)) \div 2)])]

\* calculate_smart_pivot without the test  moments["m00"] > 0  and its fallback
calculate_smart_pivot_NoGuard(mask, action_type) ==
    LET is_action_airborne == \E a \in airborne_actions : Contains(Lower(action_type), a)
        is_pose_airborne == detect_airborne_pose(mask)
        is_airborne == is_action_airborne \/ is_pose_airborne
        moments == Moments(mask)
    IN  IF is_airborne
        THEN [pivot_x |-> <<moments.m10, moments.m00 * mask.w>>,
              pivot_y |-> <<moments.m01, moments.m00 * mask.h>>,
              is_airborne |-> is_airborne]
        ELSE [pivot_x |-> <<1, 2>>, pivot_y |-> <<1, 1>>, is_airborne |-> is_airborne]

\* calculate_smart_pivot(sprite_mask, action_type) -> (pivot_x, pivot_y, is_airborne)
calculate_smart_pivot(mask, action_type) ==
    LET is_action_airborne == \E a \in airborne_actions : Contains(Lower(action_type), a)
        is_pose_airborne == detect_airborne_pose(mask)
        is_airborne == is_action_airborne \/ is_pose_airborne
        moments == Moments(mask)
    IN  IF is_airborne
        THEN IF moments.m00 > 0
             THEN [pivot_x |-> <<moments.m10, moments.m00 * mask.w>>,
                   pivot_y |-> <<moments.m01, moments.m00 * mask.h>>,
                   is_airborne |-> is_airborne]
             ELSE [pivot_x |-> <<1, 2>>, pivot_y |-> <<1, 2>>, is_airborne |-> is_airborne]
        ELSE [pivot_x |-> <<1, 2>>, pivot_y |-> <<1, 1>>, is_airborne |-> is_airborne]


---------------------------------------------------------------------------
(* Frame border removal *)

\* is_border_line(pixels) for the pixels of canvas inside the one-pixel-wide
\* window line: std < 15 and mean < 80, with n pixels of sum S and square sum Q
is_border_line(canvas, line) ==
    LET n == line.w * line.h
        idx == {i \in 1..Len(canvas.rects) : Overlaps(canvas.rects[i], line)}
        cov == [i \in idx |-> Area(Clip(canvas.rects[i], line))]
        S == White * n - SumOver(idx, [i \in idx |-> cov[i] * (White - canvas.rects[i].v)])
        Q == White * White * n
             - SumOver(idx, [i \in idx |->
                   cov[i] * (White * White - canvas.rects[i].v * canvas.rects[i].v)])
    IN  n * Q - S * S < BorderStd * BorderStd * n * n /\ S < BorderMean * n

\* the scan of an edge without its  break: one past the last index that passes
RECURSIVE LeadingRun_NoBreak(_, _, _)
LeadingRun_NoBreak(test, k, limit) ==
    IF k >= limit THEN 0
    ELSE LET rest == LeadingRun_NoBreak(test, k + 1, limit)
         IN  IF rest > 0 THEN rest ELSE IF test[k] THEN k + 1 ELSE 0

\* the number of leading indices 0, 1, ... below limit that pass test
RECURSIVE LeadingRun(_, _, _)
LeadingRun(test, k, limit) ==
    IF k < limit /\ test[k] THEN LeadingRun(test, k + 1, limit) ELSE k

\* remove_frame_borders(image, max_border_width=5) of the window image
remove_frame_borders(canvas, image) ==
    LET h == image.h
        w == image.w
        RowAt(y) == Rect(image.x, image.y + y, w, 1)
        ColAt(x) == Rect(image.x + x, image.y, 1, h)
        nTop == Min(MaxBorderWidth, h)
        nBottom == (h - 1) - Max(h - MaxBorderWidth - 1, 0)
        nLeft == Min(MaxBorderWidth, w)
        nRight == (w - 1) - Max(w - MaxBorderWidth - 1, 0)
        top_crop == LeadingRun([k \in 0..nTop |-> is_border_line(canvas, RowAt(k))], 0, nTop)
        bottom_crop == h - LeadingRun([k \in 0..nBottom |->
                               is_border_line(canvas, RowAt(h - 1 - k))], 0, nBottom)
        left_crop == LeadingRun([k \in 0..nLeft |-> is_border_line(canvas, ColAt(k))], 0, nLeft)
        right_crop == w - LeadingRun([k \in 0..nRight |->
                               is_border_line(canvas, ColAt(w - 1 - k))], 0, nRight)
    IN  IF h < MinBorderCell \/ w < MinBorderCell THEN image
        ELSE IF top_crop > 0 \/ bottom_crop < h \/ left_crop > 0 \/ right_crop < w
             THEN Slice(image, left_crop, top_crop, right_crop, bottom_crop)
             ELSE image


---------------------------------------------------------------------------
(* Contour-based sprite detection *)

FullWindow(canvas) == Rect(0, 0, canvas.w, canvas.h)

\* a run a..a+len-1 of an n-pixel line survives cv2's opening by a 1 x k
\* rectangle (anchor k \div 2) when some pixel of it has its whole kernel,
\* clipped to the line, inside the run
SurvivesOpening(a, len, n, k) ==
    \E x \in a..(a + len - 1) :
        /\ Max(0, x - (k \div 2)) >= a
        /\ Min(n - 1, x + k - 1 - (k \div 2)) <= a + len - 1

\* remove_grid_lines(binary, line_thickness=5): a solid rectangle with a row
\* of w // 4 pixels or a column of h // 4 pixels is a line; the 5 x 5 dilation
\* of the detected lines covers it whole and it is erased
remove_grid_lines(binary) ==
    [binary EXCEPT !.comps =
        {c \in binary.comps :
            \A p \in c : /\ ~SurvivesOpening(p.x, p.w, binary.w, binary.w \div 4)
                         /\ ~SurvivesOpening(p.y, p.h, binary.h, binary.h \div 4)}]

\* cv2.connectedComponentsWithStats: (x, y, w, h) and the area of a component
Stats(c) == [box |-> BoundingRect(c), area |-> PixelCount(c)]

\* the sort key of count_sprites_by_contour, (y // int(row_threshold), x),
\* followed by the position in the label (raster) order, which a stable sort keeps
SortKey(b, row_threshold) == <<b.y \div row_threshold, b.x, b.y>>

KeyLess(k1, k2) ==
    \/ k1[1] < k2[1]
    \/ k1[1] = k2[1] /\ k1[2] < k2[2]
    \/ k1[1] = k2[1] /\ k1[2] = k2[2] /\ k1[3] < k2[3]

RECURSIVE SortBoxes(_, _)
SortBoxes(boxes, row_threshold) ==
    IF boxes = {} THEN <<>>
    ELSE LET first == CHOOSE b \in boxes : \A o \in boxes \ {b} :
                          KeyLess(SortKey(b, row_threshold), SortKey(o, row_threshold))
         IN  <<first>> \o SortBoxes(boxes \ {first}, row_threshold)

\* count_sprites_by_contour(grid_image, min_sprite_area) -> (count, bboxes)
count_sprites_by_contour(canvas, min_sprite_area) ==
    LET w == canvas.w
        h == canvas.h
        binary0 == Binary(w, h, Foreground(canvas, FullWindow(canvas)))
        binary1 == remove_grid_lines(binary0)
        binary2 == remove_noise_morphological(binary1)
        binary == remove_small_components(binary2, MinArea)
        max_expected_size == (w * h) \div 4
        kept == {c \in binary.comps :
                    ~(Stats(c).area < min_sprite_area) /\ ~(Stats(c).area > max_expected_size)}
        boxes == {Stats(c).box : c \in kept}
        total_height == SumOver(boxes, [b \in boxes |-> b.h])
        row_threshold == Max(total_height \div (2 * Cardinality(boxes)), RowThresholdMin)
        bboxes == IF boxes = {} THEN <<>> ELSE SortBoxes(boxes, row_threshold)
    IN  [count |-> Len(bboxes), bboxes |-> bboxes]

\* the mask cv2.threshold(gray, 250, 255, THRESH_BINARY_INV) of a window
ThresholdMask(canvas, image) ==
    [w |-> image.w, h |-> image.h, rects |-> Foreground(canvas, image)]

MaxOf(S) == CHOOSE m \in S : \A o \in S : m >= o

\* the result with the smallest stored width and height as its frame size
ResultOf_Smallest(frames) ==
    [raised |-> None,
     frames |-> frames,
     frame_width |-> IF frames = <<>> THEN 0
                     ELSE 0 - MaxOf({0 - frames[i].width : i \in 1..Len(frames)}),
     frame_height |-> IF frames = <<>> THEN 0
                      ELSE 0 - MaxOf({0 - frames[i].height : i \in 1..Len(frames)}),
     pivots |-> [i \in 1..Len(frames) |-> <<frames[i].pivot_x, frames[i].pivot_y>>]]

ResultOf(frames) ==
    [raised |-> None,
     frames |-> frames,
     frame_width |-> IF frames = <<>> THEN 0
                     ELSE MaxOf({frames[i].width : i \in 1..Len(frames)}),
     frame_height |-> IF frames = <<>> THEN 0
                      ELSE MaxOf({frames[i].height : i \in 1..Len(frames)}),
     pivots |-> [i \in 1..Len(frames) |-> <<frames[i].pivot_x, frames[i].pivot_y>>]]

Raised(error) ==
    [raised |-> error, frames |-> <<>>, frame_width |-> 0, frame_height |-> 0,
     pivots |-> <<>>]

\* extract_frames_by_contour, the loop body from the crop stripped of its
\* borders on
ContourSprite(canvas, idx, x1, y1, x2, y2, sprite, action_type) ==
    LET pivot == calculate_smart_pivot(ThresholdMask(canvas, sprite), action_type)
    IN  [index |-> idx, image |-> sprite, x |-> x1, y |-> y1,
         width |-> x2 - x1, height |-> y2 - y1,
         pivot_x |-> pivot.pivot_x, pivot_y |-> pivot.pivot_y,
         is_airborne |-> pivot.is_airborne]

\* the loop of extract_frames_by_contour numbering its frames from 1
ContourFrame_FromOne(canvas, idx, b, action_type) ==
    LET x1 == Max(0, b.x - Padding)
        y1 == Max(0, b.y - Padding)
        x2 == Min(canvas.w, b.x + b.w + Padding)
        y2 == Min(canvas.h, b.y + b.h + Padding)
    IN  ContourSprite(canvas, idx + 1, x1, y1, x2, y2,
            remove_frame_borders(canvas, Slice(FullWindow(canvas), x1, y1, x2, y2)),
            action_type)

\* one iteration of the loop of extract_frames_by_contour
ContourFrame(canvas, idx, b, action_type) ==
    LET x1 == Max(0, b.x - Padding)
        y1 == Max(0, b.y - Padding)
        x2 == Min(canvas.w, b.x + b.w + Padding)
        y2 == Min(canvas.h, b.y + b.h + Padding)
    IN  ContourSprite(canvas, idx, x1, y1, x2, y2,
            remove_frame_borders(canvas, Slice(FullWindow(canvas), x1, y1, x2, y2)),
            action_type)

\* extract_frames_by_contour(grid_image, bboxes, action_type, padding=5)
extract_frames_by_contour(canvas, bboxes, action_type) ==
    ResultOf([i \in 1..Len(bboxes) |-> ContourFrame(canvas, i - 1, bboxes[i], action_type)])


---------------------------------------------------------------------------
(* Grid-based extraction *)

\* extract_frames, the loop body from the bounding rectangle on: the crop with
\* its padding, the pivot and the frame appended
CropSprite(frame_idx, x1, y1, cell_w, cell_h, cell, cell_binary, b, action_type) ==
    LET sx1 == Max(0, b.x - Padding)
        sy1 == Max(0, b.y - Padding)
        sx2 == Min(cell_w, b.x + b.w + Padding)
        sy2 == Min(cell_h, b.y + b.h + Padding)
        pivot == calculate_smart_pivot(MaskOf(cell_binary, sx1, sy1, sx2, sy2), action_type)
    IN  << [index |-> frame_idx, image |-> Slice(cell, sx1, sy1, sx2, sy2),
            x |-> x1 + sx1, y |-> y1 + sy1,
            width |-> sx2 - sx1, height |-> sy2 - sy1,
            pivot_x |-> pivot.pivot_x, pivot_y |-> pivot.pivot_y,
            is_airborne |-> pivot.is_airborne] >>

\* extract_frames, the loop body from the cleaned binary image on: nothing for
\* a cell without contour
CellSprite(frame_idx, x1, y1, cell_w, cell_h, cell, cell_binary, action_type) ==
    IF cell_binary.comps = {} THEN <<>>
    ELSE CropSprite(frame_idx, x1, y1, cell_w, cell_h, cell, cell_binary,
                    BoundingRect(UNION cell_binary.comps), action_type)

\* extract_frames, the loop body: the binary image of the cell, cleaned when
\* apply_noise_removal is set
CellBinary(binary0, apply_noise_removal) ==
    IF apply_noise_removal
    THEN remove_small_components(remove_noise_morphological(binary0), MinArea)
    ELSE binary0

\* extract_frames, the loop body from the cell stripped of its borders on
CellFrame(canvas, frame_idx, x1, y1, cell_w, cell_h, cell, action_type, apply_noise_removal) ==
    CellSprite(frame_idx, x1, y1, cell_w, cell_h, cell,
               CellBinary(Binary(cell.w, cell.h, Foreground(canvas, cell)),
                          apply_noise_removal),
               action_type)

\* the body of the loop of extract_frames with the frame index counted down
\* the columns, col * rows + row, in place of  row * grid_cols + col
GridCell_ColumnMajor(canvas, row, col, cell_w, cell_h, cols, action_type, apply_noise_removal) ==
    CellFrame(canvas, col * (canvas.h \div cell_h) + row, col * cell_w, row * cell_h,
              cell_w, cell_h,
              remove_frame_borders(canvas,
                  Slice(FullWindow(canvas), col * cell_w, row * cell_h,
                        col * cell_w + cell_w, row * cell_h + cell_h)),
              action_type, apply_noise_removal)

\* the body of the loop of extract_frames for cell (row, col): <<>> for an
\* empty cell, else the one frame appended
GridCell(canvas, row, col, cell_w, cell_h, cols, action_type, apply_noise_removal) ==
    CellFrame(canvas, row * cols + col, col * cell_w, row * cell_h, cell_w, cell_h,
              remove_frame_borders(canvas,
                  Slice(FullWindow(canvas), col * cell_w, row * cell_h,
                        col * cell_w + cell_w, row * cell_h + cell_h)),
              action_type, apply_noise_removal)

\* the nested loops of extract_frames with the test  frame_idx > expected_count
\* in place of  frame_idx >= expected_count
RECURSIVE GridLoop_OffByOne(_, _, _, _, _, _)
GridLoop_OffByOne(canvas, a, row, col, cell_w, cell_h) ==
    IF row >= a.grid_rows THEN <<>>
    ELSE IF col >= a.grid_cols THEN GridLoop_OffByOne(canvas, a, row + 1, 0, cell_w, cell_h)
    ELSE IF row * a.grid_cols + col > a.expected_count
         THEN GridLoop_OffByOne(canvas, a, row + 1, 0, cell_w, cell_h)
    ELSE GridCell(canvas, row, col, cell_w, cell_h, a.grid_cols, a.action_type,
                  a.apply_noise_removal)
         \o GridLoop_OffByOne(canvas, a, row, col + 1, cell_w, cell_h)

\* the nested loops of extract_frames from cell (row, col) on;  break  leaves
\* the inner loop only, the outer loop goes on with the next row
RECURSIVE GridLoop(_, _, _, _, _, _)
GridLoop(canvas, a, row, col, cell_w, cell_h) ==
    IF row >= a.grid_rows THEN <<>>
    ELSE IF col >= a.grid_cols THEN GridLoop(canvas, a, row + 1, 0, cell_w, cell_h)
    ELSE IF row * a.grid_cols + col >= a.expected_count
         THEN GridLoop(canvas, a, row + 1, 0, cell_w, cell_h)
    ELSE GridCell(canvas, row, col, cell_w, cell_h, a.grid_cols, a.action_type,
                  a.apply_noise_removal)
         \o GridLoop(canvas, a, row, col + 1, cell_w, cell_h)

\* extract_frames(grid_image, expected_count, grid_rows, grid_cols, is_grounded,
\*                action_type, apply_noise_removal), the arguments but the image in a
extract_frames(canvas, a) ==
    LET cell_w == canvas.w \div a.grid_cols
        cell_h == canvas.h \div a.grid_rows
    IN  IF a.grid_cols = 0 \/ a.grid_rows = 0 THEN Raised("ZeroDivisionError")
        ELSE IF a.expected_count > 0 /\ (cell_w = 0 \/ cell_h = 0)
             THEN Raised("cv2.error")   \* cvtColor of the empty first cell
        ELSE ResultOf(GridLoop(canvas, a, 0, 0, cell_w, cell_h))

\* the cells the nested loops of extract_frames slice out of the image
SlicedCells(canvas, grid_rows, grid_cols) ==
    LET cell_w == canvas.w \div grid_cols
        cell_h == canvas.h \div grid_rows
    IN  { Slice(FullWindow(canvas), col * cell_w, row * cell_h,
                col * cell_w + cell_w, row * cell_h + cell_h) :
              row \in 0..(grid_rows - 1), col \in 0..(grid_cols - 1) }

\* generate_animated_tile of the tileset generator from the decoded strip on:
\* the strip resized to tile_size * frame_count by tile_size when it has
\* another size, and the frames its own extract_frames slices
AnimatedTileFrames(strip, tile_size, frame_count) ==
    LET expected_width == tile_size * frame_count
        expected_height == tile_size
        resized == strip.w # expected_width \/ strip.h # expected_height
        w == IF resized THEN expected_width ELSE strip.w
        h == IF resized THEN expected_height ELSE strip.h
    IN  [resized |-> resized,
         strip |-> [w |-> w, h |-> h],
         frames |-> [i \in 1..frame_count |->
                        Slice(Rect(0, 0, w, h), (i - 1) * tile_size, 0,
                              (i - 1) * tile_size + tile_size, h)]]

---------------------------------------------------------------------------
(* Hybrid extraction *)

\* the flag use_contour with rule 3 lacking its 80 % condition
UseContour_LooseCloser(expected_count, gemini_frame_count, contour_count) ==
    LET gemini_diff == Abs(gemini_frame_count - expected_count)
        contour_diff == Abs(contour_count - expected_count)
        contour_failed == 2 * contour_count < expected_count
    IN  IF contour_failed THEN FALSE
        ELSE IF contour_count = expected_count THEN TRUE
        ELSE IF contour_diff < gemini_diff THEN TRUE
        ELSE IF 10 * gemini_frame_count > 13 * expected_count
                /\ 10 * contour_count >= 8 * expected_count
             THEN TRUE
        ELSE FALSE

\* extract_frames_hybrid, step 2: the flag use_contour
UseContour(expected_count, gemini_frame_count, contour_count) ==
    LET gemini_diff == Abs(gemini_frame_count - expected_count)
        contour_diff == Abs(contour_count - expected_count)
        contour_failed == 2 * contour_count < expected_count
    IN  IF contour_failed THEN FALSE
        ELSE IF contour_count = expected_count THEN TRUE
        ELSE IF contour_diff < gemini_diff /\ 10 * contour_count >= 8 * expected_count
             THEN TRUE
        ELSE IF 10 * gemini_frame_count > 13 * expected_count
                /\ 10 * contour_count >= 8 * expected_count
             THEN TRUE
        ELSE FALSE

\* the arbitration with the over-count test ahead of the exact match
ArbitrationRule_OvercountFirst(expected_count, gemini_frame_count, contour_count) ==
    LET gemini_diff == Abs(gemini_frame_count - expected_count)
        contour_diff == Abs(contour_count - expected_count)
        contour_failed == 2 * contour_count < expected_count
    IN  IF contour_failed THEN 1
        ELSE IF 10 * gemini_frame_count > 13 * expected_count
                /\ 10 * contour_count >= 8 * expected_count
             THEN 4
        ELSE IF contour_count = expected_count THEN 2
        ELSE IF contour_diff < gemini_diff /\ 10 * contour_count >= 8 * expected_count
             THEN 3
        ELSE 5

\* extract_frames_hybrid, step 2: the branch of the if / elif chain that is
\* executed, numbered in the order of the code; 5 when none is, and
\* use_contour keeps its initial False
ArbitrationRule(expected_count, gemini_frame_count, contour_count) ==
    LET gemini_diff == Abs(gemini_frame_count - expected_count)
        contour_diff == Abs(contour_count - expected_count)
        contour_failed == 2 * contour_count < expected_count
    IN  IF contour_failed THEN 1
        ELSE IF contour_count = expected_count THEN 2
        ELSE IF contour_diff < gemini_diff /\ 10 * contour_count >= 8 * expected_count
             THEN 3
        ELSE IF 10 * gemini_frame_count > 13 * expected_count
                /\ 10 * contour_count >= 8 * expected_count
             THEN 4
        ELSE 5

\* the test that selects the contour extractor, asking for more than one sprite
TakesContourPath_Several(flag, contour_count) == flag /\ contour_count > 1

\* extract_frames_hybrid, step 3: the test that selects the contour extractor
TakesContourPath(flag, contour_count) == flag /\ contour_count > 0

\* extract_frames_hybrid, step 3, else branch: the grid handed to extract_frames
HybridGrid(expected_count, gemini_rows, gemini_cols, gemini_frame_count) ==
    IF gemini_frame_count # expected_count
       /\ ~(gemini_rows * gemini_cols >= expected_count)
    THEN <<CeilSqrt(expected_count), CeilSqrt(expected_count)>>
    ELSE <<gemini_rows, gemini_cols>>

\* extract_frames_hybrid, step 3: the extraction itself
HybridExtract(canvas, a, c, flag) ==
    IF TakesContourPath(flag, c.count)
    THEN extract_frames_by_contour(canvas, c.bboxes, a.action_type)
    ELSE LET grid == HybridGrid(a.expected_count, a.gemini_rows, a.gemini_cols,
                                a.gemini_frame_count)
         IN  extract_frames(canvas,
                 [expected_count |-> a.expected_count, grid_rows |-> grid[1],
                  grid_cols |-> grid[2], action_type |-> a.action_type,
                  apply_noise_removal |-> a.apply_noise_removal])

\* extract_frames_hybrid(grid_image, expected_count, gemini_rows, gemini_cols,
\*                       gemini_frame_count, ...), steps 1 to 3 in one
extract_frames_hybrid(canvas, a) ==
    LET c == count_sprites_by_contour(canvas, MinSpriteArea)
        flag == UseContour(a.expected_count, a.gemini_frame_count, c.count)
    IN  HybridExtract(canvas, a, c, flag)

---------------------------------------------------------------------------
(* Normalisation *)

\* the shape numpy gives the slice [i1:i2] (0 <= i1) of an axis of n entries
SliceLen(i1, i2, n) == Max(Min(i2, n) - Min(i1, n), 0)

\* one iteration of the loop of normalize_frames without the clamp of the
\* source rectangle to the canvas (src_x2 = actual_w, src_y2 = actual_h)
NormalizeFrame_Unclamped(frame, target_w, target_h) ==
    LET actual_w == frame.image.w
        actual_h == frame.image.h
        dx == FloorDiv(target_w - actual_w, 2)
        dy == IF frame.is_airborne THEN FloorDiv(target_h - actual_h, 2)
              ELSE target_h - actual_h
        src_x1 == Max(0, 0 - dx)
        src_y1 == Max(0, 0 - dy)
        src_x2 == actual_w
        src_y2 == actual_h
        dst_x1 == Max(0, dx)
        dst_y1 == Max(0, dy)
        dst_x2 == dst_x1 + (src_x2 - src_x1)
        dst_y2 == dst_y1 + (src_y2 - src_y1)
        pasted == dst_x2 > dst_x1 /\ dst_y2 > dst_y1
        src_w == SliceLen(src_x1, src_x2, actual_w)
        src_h == SliceLen(src_y1, src_y2, actual_h)
        dst_w == SliceLen(dst_x1, dst_x2, target_w)
        dst_h == SliceLen(dst_y1, dst_y2, target_h)
        fits == (src_w = dst_w \/ src_w = 1) /\ (src_h = dst_h \/ src_h = 1)
    IN  IF actual_w = 0 \/ actual_h = 0 THEN [raised |-> "cv2.error"]
        ELSE IF pasted /\ ~fits THEN [raised |-> "ValueError"]
        ELSE [raised |-> None, w |-> target_w, h |-> target_h, channels |-> 4,
              image |-> frame.image, pasted |-> pasted,
              src |-> Rect(src_x1, src_y1, src_x2 - src_x1, src_y2 - src_y1),
              dst |-> Rect(dst_x1, dst_y1, dst_x2 - dst_x1, dst_y2 - dst_y1)]

\* threshold normalize_frames gives make_sprite_transparent
WhiteThreshold == 240
Opaque == 255

\* np.all(bgr >= threshold, axis=2) at one pixel
is_white(px, threshold) == \A c \in 1..3 : px[c] >= threshold

\* np.where(is_white, 0, 255)
SharpAlpha(pixels, threshold) ==
    [p \in DOMAIN pixels |-> IF is_white(pixels[p], threshold) THEN 0 ELSE Opaque]

\* cv2.dilate with the 3 x 3 elliptic kernel (a cross); pixels outside the
\* image never win the maximum
Dilate(alpha, w, h) ==
    [p \in DOMAIN alpha |->
        IF \E q \in DOMAIN alpha :
               /\ Abs(q[1] - p[1]) + Abs(q[2] - p[2]) <= 1
               /\ alpha[q] = Opaque
        THEN Opaque ELSE 0]

\* cv2.BORDER_REFLECT_101, the border of cv2.GaussianBlur
Reflect101(i, n) ==
    IF n = 1 THEN 0
    ELSE IF i < 0 THEN 0 - i
    ELSE IF i >= n THEN 2 * n - 2 - i
    ELSE i

\* the 3-tap kernel of cv2.GaussianBlur for sigma 0, in quarters
GaussTap(d) == IF d = 0 THEN 2 ELSE 1

\* cv2.GaussianBlur(alpha, (3, 3), 0) on 8-bit values, rounded half up
GaussianBlur(alpha, w, h) ==
    [p \in DOMAIN alpha |->
        (Sum([i \in 1..9 |->
                LET dx == ((i - 1) % 3) - 1
                    dy == ((i - 1) \div 3) - 1
                IN  GaussTap(dx) * GaussTap(dy)
                      * alpha[<<Reflect101(p[1] + dx, w), Reflect101(p[2] + dy, h)>>]])
           + 8) \div 16]

\* remove_white_background(image, threshold, feather) for feather 0 or 1: the
\* alpha channel of the image returned
remove_white_background(image, threshold, feather) ==
    LET sharp == SharpAlpha(image.pixels, threshold)
    IN  [w |-> image.w, h |-> image.h,
         alpha |-> IF feather > 0
                   THEN LET blurred == GaussianBlur(Dilate(sharp, image.w, image.h),
                                                    image.w, image.h)
                        IN  [p \in DOMAIN sharp |-> Max(blurred[p], sharp[p])]
                   ELSE sharp]

\* the loop body with every frame centred vertically, grounded or not
NormalizeFrame_Centred(frame, target_w, target_h) ==
    LET actual_w == frame.image.w
        actual_h == frame.image.h
        dx == FloorDiv(target_w - actual_w, 2)
        dy == FloorDiv(target_h - actual_h, 2)
        src_x1 == Max(0, 0 - dx)
        src_y1 == Max(0, 0 - dy)
        src_x2 == Min(actual_w, target_w - dx)
        src_y2 == Min(actual_h, target_h - dy)
        dst_x1 == Max(0, dx)
        dst_y1 == Max(0, dy)
        dst_x2 == dst_x1 + (src_x2 - src_x1)
        dst_y2 == dst_y1 + (src_y2 - src_y1)
    IN  IF actual_w = 0 \/ actual_h = 0 THEN [raised |-> "cv2.error"]
        ELSE [raised |-> None, w |-> target_w, h |-> target_h, channels |-> 4,
              image |-> frame.image, pasted |-> dst_x2 > dst_x1 /\ dst_y2 > dst_y1,
              src |-> Rect(src_x1, src_y1, src_x2 - src_x1, src_y2 - src_y1),
              dst |-> Rect(dst_x1, dst_y1, dst_x2 - dst_x1, dst_y2 - dst_y1)]

\* one iteration of the loop of normalize_frames: the canvas appended, or the
\* error raised
NormalizeFrame(frame, target_w, target_h) ==
    LET actual_w == frame.image.w
        actual_h == frame.image.h
        dx == FloorDiv(target_w - actual_w, 2)
        dy == IF frame.is_airborne THEN FloorDiv(target_h - actual_h, 2)
              ELSE target_h - actual_h
        src_x1 == Max(0, 0 - dx)
        src_y1 == Max(0, 0 - dy)
        src_x2 == Min(actual_w, target_w - dx)
        src_y2 == Min(actual_h, target_h - dy)
        dst_x1 == Max(0, dx)
        dst_y1 == Max(0, dy)
        dst_x2 == dst_x1 + (src_x2 - src_x1)
        dst_y2 == dst_y1 + (src_y2 - src_y1)
        pasted == dst_x2 > dst_x1 /\ dst_y2 > dst_y1
        src_w == SliceLen(src_x1, src_x2, actual_w)
        src_h == SliceLen(src_y1, src_y2, actual_h)
        dst_w == SliceLen(dst_x1, dst_x2, target_w)
        dst_h == SliceLen(dst_y1, dst_y2, target_h)
        fits == (src_w = dst_w \/ src_w = 1) /\ (src_h = dst_h \/ src_h = 1)
    IN  IF actual_w = 0 \/ actual_h = 0 THEN [raised |-> "cv2.error"]
        ELSE IF pasted /\ ~fits THEN [raised |-> "ValueError"]
        ELSE [raised |-> None, w |-> target_w, h |-> target_h, channels |-> 4,
              image |-> frame.image, pasted |-> pasted,
              src |-> Rect(src_x1, src_y1, src_x2 - src_x1, src_y2 - src_y1),
              dst |-> Rect(dst_x1, dst_y1, dst_x2 - dst_x1, dst_y2 - dst_y1)]

\* normalize_frames(frames, target_w, target_h): the list returned, or the
\* first error raised
normalize_frames(frames, target_w, target_h) ==
    LET each == [i \in 1..Len(frames) |-> NormalizeFrame(frames[i], target_w, target_h)]
    IN  IF \E i \in 1..Len(frames) : each[i].raised # None
        THEN [raised |-> each[CHOOSE i \in 1..Len(frames) :
                                 /\ each[i].raised # None
                                 /\ \A j \in 1..(i - 1) : each[j].raised = None].raised,
              images |-> <<>>]
        ELSE [raised |-> None, images |-> each]


---------------------------------------------------------------------------
(* Inputs *)

unknown == <<"u", "n", "k", "n", "o", "w", "n">>

ActionTypes ==
    { unknown,
      <<"J", "u", "m", "p">>,
      <<"s", "t", "a", "i", "r", "s">> }

Blob(x, y, w, h, v) == [x |-> x, y |-> y, w |-> w, h |-> h, v |-> v]

\* a 128 x 128 sheet with n black bw x bh blobs on a three-column lattice of
\* pitch 40, in reading order
BlobCanvas(n, bw, bh) ==
    [w |-> 128, h |-> 128,
     rects |-> [k \in 1..n |-> Blob(8 + 40 * ((k - 1) % 3), 8 + 40 * ((k - 1) \div 3),
                                    bw, bh, 0)]]

\* two blobs of one visual row that a multiple of the row threshold separates,
\* the right one slightly higher
StaggeredCanvas ==
    [w |-> 128, h |-> 128,
     rects |-> <<Blob(8, 52, 24, 24, 0), Blob(88, 44, 24, 24, 0)>>]

\* two rows of blobs with a drawn separator line between them
RuledCanvas ==
    [w |-> 128, h |-> 128,
     rects |-> <<Blob(8, 8, 24, 24, 0), Blob(48, 8, 24, 24, 120),
                 Blob(0, 40, 128, 2, 0), Blob(8, 48, 24, 24, 0)>>]

\* a large sheet with one small sprite
WideCanvas ==
    [w |-> 256, h |-> 256, rects |-> <<Blob(8, 8, 24, 24, 0)>>]

BlobCanvases ==
    {BlobCanvas(n, 24, 24) : n \in 0..MaxBlobs}
    \cup {BlobCanvas(1, 20, 20), BlobCanvas(2, 36, 24), BlobCanvas(2, 24, 30),
          StaggeredCanvas, RuledCanvas}

\* a rows x cols sheet of 40 x 40 cells, every cell framed by a dark line of
\* thickness t (none for t = 0), the cells of occ holding the sprite shape sp
\* (x, y, w, h inside the cell) of grey level v
GridCanvas(rows, cols, t, occ, sp, v) ==
    LET cells == {k \in 0..(rows * cols - 1) : TRUE}
        X(k) == 40 * (k % cols)
        Y(k) == 40 * (k \div cols)
        bars(k) == IF t = 0 THEN <<>>
                   ELSE << Blob(X(k), Y(k), 40, t, 0),
                           Blob(X(k), Y(k) + 40 - t, 40, t, 0),
                           Blob(X(k), Y(k) + t, t, 40 - 2 * t, 0),
                           Blob(X(k) + 40 - t, Y(k) + t, t, 40 - 2 * t, 0) >>
        sprite(k) == IF k \in occ
                     THEN << Blob(X(k) + sp[1], Y(k) + sp[2], sp[3], sp[4], v) >>
                     ELSE <<>>
        RECURSIVE all(_)
        all(k) == IF k >= rows * cols THEN <<>> ELSE bars(k) \o sprite(k) \o all(k + 1)
    IN  [w |-> 40 * cols, h |-> 40 * rows, rects |-> all(0),
         rows |-> rows, cols |-> cols, frame |-> t, occ |-> occ, sprite |-> sp]

\* sprite shapes (x, y, w, h inside the 40 x 40 cell): a usual one, a small one
\* near the corner, a speck below min_area, a tall one; on sheets without
\* frames also one flush with the cell's left edge and one a pixel off it
SpriteShapes(t) ==
    { <<10, 8, 20, 24>>, <<6, 6, 12, 12>>, <<17, 17, 6, 6>>, <<12, 5, 16, 30>> }
    \cup (IF t = 0 THEN { <<0, 10, 20, 20>>, <<1, 12, 20, 27>> } ELSE {})

Occupancies(n) ==
    {0..(n - 1), {}} \cup {(0..(n - 1)) \ {k} : k \in 0..(n - 1)}

GridCanvases ==
    UNION { UNION { UNION { {GridCanvas(r, c, t, occ, sp, 0) :
                                occ \in Occupancies(r * c), sp \in SpriteShapes(t)} :
                            t \in {0, 2}} :
                    c \in 1..MaxGrid} :
            r \in 1..MaxGrid}

\* a sheet too small for the grid asked for
TinyCanvas ==
    [w |-> 1, h |-> 1, rects |-> <<>>, rows |-> 1, cols |-> 1,
     frame |-> 0, occ |-> {}, sprite |-> <<0, 0, 0, 0>>]

\* a 1 x 2 sheet of 40 x 40 cells with extra white columns on the right and extra
\* white rows at the bottom, a sprite in each cell
RaggedCanvas(extra_w, extra_h) ==
    [w |-> 80 + extra_w, h |-> 40 + extra_h,
     rects |-> <<Blob(10, 8, 20, 24, 0), Blob(50, 8, 20, 24, 0)>>,
     rows |-> 1, cols |-> 2, frame |-> 0, occ |-> {0, 1}, sprite |-> <<10, 8, 20, 24>>]

\* a square cell of side s with bars of grey v along its edges, tt, tb, tl
\* and tr thick, and a small dark sprite in the middle
BorderCanvas(s, tt, tb, tl, tr, v) ==
    [w |-> s, h |-> s,
     rects |-> (IF tt > 0 THEN <<Blob(0, 0, s, tt, v)>> ELSE <<>>)
               \o (IF tb > 0 THEN <<Blob(0, s - tb, s, tb, v)>> ELSE <<>>)
               \o (IF tl > 0 THEN <<Blob(0, tt, tl, s - tt - tb, v)>> ELSE <<>>)
               \o (IF tr > 0 THEN <<Blob(s - tr, tt, tr, s - tt - tb, v)>> ELSE <<>>)
               \o <<Blob(7, 7, 2, 2, 0)>>]

\* a cell with a dark line across it one pixel below its top edge
FloatingBarCanvas(s) ==
    [w |-> s, h |-> s, rects |-> <<Blob(0, 1, s, 2, 0), Blob(7, 7, 2, 2, 0)>>]

BorderWidths == {0, 2, 6}

\* cells below and above the 20 pixels remove_frame_borders asks for
BorderCalls ==
    [canvas : {BorderCanvas(s, tt, tb, tl, tr, v) :
                   s \in {16, 24}, tt \in BorderWidths, tb \in BorderWidths,
                   tl \in BorderWidths, tr \in BorderWidths, v \in {0, 70, 120}}
              \cup {FloatingBarCanvas(s) : s \in {16, 24}}]

\* pixel colours (B, G, R): white, the darkest white, white but for one
\* channel, and black
MatteColours == {<<255, 255, 255>>, <<240, 240, 240>>, <<239, 255, 255>>, <<0, 0, 0>>}

\* sprites of one row in every colouring, and of two rows in white and black
MatteImages ==
    UNION { { [w |-> w, h |-> 1, pixels |-> f] :
                  f \in [(0..(w - 1)) \X {0} -> MatteColours] } : w \in 1..MaxMatteW }
    \cup
    UNION { { [w |-> w, h |-> 2, pixels |-> f] :
                  f \in [(0..(w - 1)) \X (0..1) -> {<<255, 255, 255>>, <<0, 0, 0>>}] } :
            w \in 1..(MaxMatteW - 1) }

MatteCalls == [image : MatteImages, threshold : {WhiteThreshold}, feather : {0, 1}]

\* count_sprites_by_contour called directly, with the min_sprite_area of
\* extract_frames_hybrid
CountCalls ==
    [canvas : BlobCanvases \cup {WideCanvas}, min_sprite_area : {MinSpriteArea}]

\* a sheet of six sprites that the estimate takes for a 4 x 4 grid of sixteen
OvercountCalls ==
    [canvas : {BlobCanvas(6, 24, 24)}, expected_count : {6},
     gemini_rows : {4}, gemini_cols : {4}, gemini_frame_count : {16},
     action_type : {unknown}, apply_noise_removal : {TRUE}]

HybridCalls ==
    [canvas : BlobCanvases, expected_count : 0..MaxExpected,
     gemini_rows : 0..MaxHint, gemini_cols : 0..MaxHint,
     gemini_frame_count : 0..MaxGemini,
     action_type : {unknown}, apply_noise_removal : {TRUE}]
    \cup OvercountCalls

\* extract_frames as the reprocess endpoint calls it, with the grid of the sheet
GridCalls ==
    UNION { [canvas : {cv}, expected_count : 0..MaxExpected,
             grid_rows : {cv.rows}, grid_cols : {cv.cols},
             action_type : {unknown}, apply_noise_removal : {TRUE}] : cv \in GridCanvases }
    \cup [canvas : {TinyCanvas}, expected_count : 0..1,
          grid_rows : {0, 1, MaxHint}, grid_cols : {0, 1, MaxHint},
          action_type : {unknown}, apply_noise_removal : {TRUE}]
    \cup [canvas : {RaggedCanvas(ew, eh) : ew \in 0..1, eh \in 0..1},
          expected_count : {2}, grid_rows : {1}, grid_cols : {2},
          action_type : {unknown}, apply_noise_removal : {TRUE}]

\* decoded strips of the animated tile generator, of the size asked for and not
StripCalls ==
    [strip : [w : 1..MaxStrip, h : 1..MaxTile], tile_size : 1..MaxTile,
     frame_count : 1..MaxTile]

InputFrame(k, w, h, air) ==
    [index |-> k, image |-> Rect(0, 0, w, h), x |-> 0, y |-> 0, width |-> w, height |-> h,
     pivot_x |-> <<1, 2>>, pivot_y |-> IF air THEN <<1, 2>> ELSE <<1, 1>>,
     is_airborne |-> air]

FrameLists ==
    {<<>>}
    \cup { <<InputFrame(0, w, h, air)>> :
               w \in 1..MaxSprite, h \in 1..MaxSprite, air \in BOOLEAN }
    \cup { <<InputFrame(0, w, h, air), InputFrame(1, d, d, ~air)>> :
               w \in 1..MaxSprite, h \in 1..MaxSprite, air \in BOOLEAN, d \in 1..MaxSprite }

NormalizeCalls ==
    [frames : FrameLists, target_w : 0..MaxTarget, target_h : 0..MaxTarget]

SubRects(w, h) ==
    {Rect(x, y, rw, rh) : x \in 0..(w - 1), y \in 0..(h - 1), rw \in 1..w, rh \in 1..h}

\* masks of 1 or 2 columns: nothing, a rectangle, or a rectangle and a pixel
Masks ==
    UNION { UNION { {[w |-> w, h |-> h, rects |-> {}]}
                    \cup { [w |-> w, h |-> h, rects |-> {a}] :
                             a \in {r \in SubRects(w, h) : r.x + r.w <= w /\ r.y + r.h <= h} }
                    \cup { [w |-> w, h |-> h, rects |-> {a, b}] :
                             a \in {r \in SubRects(w, h) : r.x + r.w <= w /\ r.y + r.h <= h},
                             b \in {r \in SubRects(w, h) : r.w = 1 /\ r.h = 1} } :
                    w \in {1, 2}} :
            h \in 0..MaxMaskH}

Disjoint(a, b) == ~Overlaps(a, b)

PivotCalls ==
    { c \in [mask : Masks, action_type : ActionTypes] :
        \A a \in c.mask.rects : \A b \in c.mask.rects \ {a} : Disjoint(a, b) }

\* masks for the noise cleaner alone: one rectangle, or two side by side in
\* the same rows with a gap of 1..MaxGap columns
NoiseSizes == {2, 3, 7, 10}
NoiseHeights == {3, 8, 17, 26}

NoiseMasks ==
    { Binary(40, 40, {Rect(4, 4, rw, rh)}) : rw \in NoiseSizes, rh \in NoiseHeights }
    \cup { Binary(40, 40, {Rect(4, 4, rw, rh), Rect(4 + rw + gap, 4, qw, rh)}) :
              rw \in NoiseSizes, qw \in NoiseSizes, rh \in NoiseHeights, gap \in 1..MaxGap }

\* min_area as the callers pass it and as remove_small_components defaults it
NoiseCalls == [binary : NoiseMasks, min_area : {MinArea, DefaultMinArea}]

---------------------------------------------------------------------------
(* Callers of extract_frames_hybrid on several threads *)

Threads == {1, 2}

\* calls each thread makes, one after the other
CallBudget == [t \in Threads |-> IF t = 1 THEN 2 ELSE 1]

\* sheets of two and three sprites, two expected, with an estimate that is
\* right or one too many
ConcurrentCalls ==
    [canvas : {BlobCanvas(n, 24, 24) : n \in 2..3}, expected_count : {2},
     gemini_rows : {1}, gemini_cols : {2}, gemini_frame_count : {2, 3},
     action_type : {unknown}, apply_noise_removal : {TRUE}]

NoContour == [count |-> 0, bboxes |-> <<>>]

NoArgs ==
    [canvas |-> BlobCanvas(0, 24, 24), expected_count |-> 0,
     gemini_rows |-> 0, gemini_cols |-> 0, gemini_frame_count |-> 0,
     action_type |-> unknown, apply_noise_removal |-> TRUE]

\* the frame of a thread that is not inside a call
IdleCall(k) ==
    [pc |-> "idle", k |-> k, args |-> NoArgs, contour |-> NoContour, use_contour |-> FALSE]

NoCallers ==
    /\ calls = [t \in Threads |-> IdleCall(0)]
    /\ history = {}

---------------------------------------------------------------------------
(* PipelineOrchestrator.run_full_pipeline: state before the first call *)

\* the stages run_full_pipeline runs, in the order of its statements
StageOrder == <<1, 3, 4, 5, 6, 7>>

At(stage, at) == [stage |-> stage, at |-> at]

\* a fresh PipelineState: what is set of it, the status and the stages
FreshState ==
    [status |-> "idle", character_dna |-> FALSE, dna_verified |-> FALSE,
     frame_budget |-> FALSE, intent_confirmed |-> FALSE, animation_script |-> FALSE,
     stages |-> [n \in {1, 3, 4, 5, 6, 7} |-> "pending"]]

IdleFull ==
    /\ full_pc = At(0, "idle")
    /\ state = FreshState
    /\ emitted = <<>>

---------------------------------------------------------------------------
(* The engine: one call of an entry point, step by step *)

IdlePipeline ==
    /\ opc = "idle"
    /\ job = None
    /\ loc = None
    /\ stages = [n \in {7} |-> "pending"]
    /\ frame_urls = <<>>
    /\ pivots = <<>>
    /\ events = <<>>

Init ==
    /\ \/ entry = "extract_frames_hybrid" /\ inp \in HybridCalls
       \/ entry = "extract_frames" /\ inp \in GridCalls
       \/ entry = "normalize_frames" /\ inp \in NormalizeCalls
       \/ entry = "calculate_smart_pivot" /\ inp \in PivotCalls
       \/ entry = "remove_noise" /\ inp \in NoiseCalls
       \/ entry = "count_sprites_by_contour" /\ inp \in CountCalls
       \/ entry = "remove_frame_borders" /\ inp \in BorderCalls
       \/ entry = "remove_white_background" /\ inp \in MatteCalls
       \/ entry = "generate_animated_tile" /\ inp \in StripCalls
    /\ pc = "called"
    /\ contour = None
    /\ use_contour = None
    /\ rule = None
    /\ result = None
    /\ normalized = None
    /\ IdlePipeline
    /\ NoCallers
    /\ IdleFull

\* extract_frames_hybrid, step 1
CountSprites ==
    /\ entry = "extract_frames_hybrid" /\ pc = "called"
    /\ contour' = count_sprites_by_contour(inp.canvas, MinSpriteArea)
    /\ pc' = "counted"
    /\ UNCHANGED <<entry, inp, use_contour, rule, result, normalized>>
    /\ UNCHANGED pipeline_vars
    /\ UNCHANGED concurrent_vars
    /\ UNCHANGED full_vars

\* extract_frames_hybrid, step 2
Arbitrate ==
    /\ entry = "extract_frames_hybrid" /\ pc = "counted"
    /\ use_contour' = UseContour(inp.expected_count, inp.gemini_frame_count, contour.count)
    /\ rule' = ArbitrationRule(inp.expected_count, inp.gemini_frame_count, contour.count)
    /\ pc' = "arbitrated"
    /\ UNCHANGED <<entry, inp, contour, result, normalized>>
    /\ UNCHANGED pipeline_vars
    /\ UNCHANGED concurrent_vars
    /\ UNCHANGED full_vars

\* extract_frames_hybrid, step 3
HybridExtractStep ==
    /\ entry = "extract_frames_hybrid" /\ pc = "arbitrated"
    /\ LET r == HybridExtract(inp.canvas, inp, contour, use_contour)
       IN  /\ result' = r @@ [path |-> IF TakesContourPath(use_contour, contour.count)
                                       THEN "contour" ELSE "grid",
                               grid |-> HybridGrid(inp.expected_count, inp.gemini_rows,
                                                   inp.gemini_cols, inp.gemini_frame_count)]
           /\ pc' = IF result'.raised = None THEN "returned" ELSE "raised"
    /\ UNCHANGED <<entry, inp, contour, use_contour, rule, normalized>>
    /\ UNCHANGED pipeline_vars
    /\ UNCHANGED concurrent_vars
    /\ UNCHANGED full_vars

\* extract_frames called directly
ExtractFrames ==
    /\ entry = "extract_frames" /\ pc = "called"
    /\ LET r == extract_frames(inp.canvas, inp)
       IN  /\ result' = r @@ [path |-> "grid"]
           /\ pc' = IF result'.raised = None THEN "returned" ELSE "raised"
    /\ UNCHANGED <<entry, inp, contour, use_contour, rule, normalized>>
    /\ UNCHANGED pipeline_vars
    /\ UNCHANGED concurrent_vars
    /\ UNCHANGED full_vars

\* the callers of both extractors normalise the result with its own frame size
NormalizeResult ==
    /\ entry \in {"extract_frames_hybrid", "extract_frames"} /\ pc = "returned"
    /\ normalized' = normalize_frames(result.frames, result.frame_width, result.frame_height)
    /\ pc' = "normalized"
    /\ UNCHANGED <<entry, inp, contour, use_contour, rule, result>>
    /\ UNCHANGED pipeline_vars
    /\ UNCHANGED concurrent_vars
    /\ UNCHANGED full_vars

\* normalize_frames called directly
NormalizeFrames ==
    /\ entry = "normalize_frames" /\ pc = "called"
    /\ normalized' = normalize_frames(inp.frames, inp.target_w, inp.target_h)
    /\ pc' = "normalized"
    /\ UNCHANGED <<entry, inp, contour, use_contour, rule, result>>
    /\ UNCHANGED pipeline_vars
    /\ UNCHANGED concurrent_vars
    /\ UNCHANGED full_vars

\* calculate_smart_pivot called directly
CalculatePivot ==
    /\ entry = "calculate_smart_pivot" /\ pc = "called"
    /\ result' = calculate_smart_pivot(inp.mask, inp.action_type)
    /\ pc' = "returned"
    /\ UNCHANGED <<entry, inp, contour, use_contour, rule, normalized>>
    /\ UNCHANGED pipeline_vars
    /\ UNCHANGED concurrent_vars
    /\ UNCHANGED full_vars

\* the noise cleaner called directly: remove_noise_morphological ...
RemoveNoiseMorphological ==
    /\ entry = "remove_noise" /\ pc = "called"
    /\ result' = remove_noise_morphological(inp.binary)
    /\ pc' = "opened_closed"
    /\ UNCHANGED <<entry, inp, contour, use_contour, rule, normalized>>
    /\ UNCHANGED pipeline_vars
    /\ UNCHANGED concurrent_vars
    /\ UNCHANGED full_vars

\* ... then remove_small_components on its result
RemoveSmallComponents ==
    /\ entry = "remove_noise" /\ pc = "opened_closed"
    /\ result' = remove_small_components(result, inp.min_area)
    /\ pc' = "returned"
    /\ UNCHANGED <<entry, inp, contour, use_contour, rule, normalized>>
    /\ UNCHANGED pipeline_vars
    /\ UNCHANGED concurrent_vars
    /\ UNCHANGED full_vars

\* count_sprites_by_contour called directly
CountSpritesDirect ==
    /\ entry = "count_sprites_by_contour" /\ pc = "called"
    /\ contour' = count_sprites_by_contour(inp.canvas, inp.min_sprite_area)
    /\ pc' = "returned"
    /\ UNCHANGED <<entry, inp, use_contour, rule, result, normalized>>
    /\ UNCHANGED pipeline_vars
    /\ UNCHANGED concurrent_vars
    /\ UNCHANGED full_vars

\* remove_frame_borders called directly on a whole cell image
RemoveFrameBorders ==
    /\ entry = "remove_frame_borders" /\ pc = "called"
    /\ result' = remove_frame_borders(inp.canvas, FullWindow(inp.canvas))
    /\ pc' = "returned"
    /\ UNCHANGED <<entry, inp, contour, use_contour, rule, normalized>>
    /\ UNCHANGED pipeline_vars
    /\ UNCHANGED concurrent_vars
    /\ UNCHANGED full_vars

\* remove_white_background as make_sprite_transparent calls it
RemoveWhiteBackground ==
    /\ entry = "remove_white_background" /\ pc = "called"
    /\ result' = remove_white_background(inp.image, inp.threshold, inp.feather)
    /\ pc' = "returned"
    /\ UNCHANGED <<entry, inp, contour, use_contour, rule, normalized>>
    /\ UNCHANGED pipeline_vars
    /\ UNCHANGED concurrent_vars
    /\ UNCHANGED full_vars

\* generate_animated_tile, from the decoded strip to the frames
GenerateAnimatedTile ==
    /\ entry = "generate_animated_tile" /\ pc = "called"
    /\ result' = AnimatedTileFrames(inp.strip, inp.tile_size, inp.frame_count)
    /\ pc' = "returned"
    /\ UNCHANGED <<entry, inp, contour, use_contour, rule, normalized>>
    /\ UNCHANGED pipeline_vars
    /\ UNCHANGED concurrent_vars
    /\ UNCHANGED full_vars

Next ==
    \/ CountSprites
    \/ Arbitrate
    \/ HybridExtractStep
    \/ ExtractFrames
    \/ NormalizeResult
    \/ NormalizeFrames
    \/ CalculatePivot
    \/ RemoveNoiseMorphological
    \/ RemoveSmallComponents
    \/ CountSpritesDirect
    \/ RemoveFrameBorders
    \/ RemoveWhiteBackground
    \/ GenerateAnimatedTile

Spec == Init /\ [][Next]_vars

---------------------------------------------------------------------------
(* PipelineOrchestrator.run_stage_7, statement by statement *)

\* what detect_grid_layout_with_gemini returns when the request fails
FallbackGrid == <<4, 4, 16>>

\* the answers of detect_grid_layout_with_gemini: the fallback, or the rows,
\* cols and frame_count of the reply, which are not validated
GeminiAnswers ==
    {FallbackGrid} \cup {<<r, c, r * c>> : r \in {0, MaxHint}, c \in {0, MaxHint}}

PipelineCanvases == {BlobCanvas(n, 24, 24) : n \in {0, 2, 3}}

\* a call: the spritesheet bytes (empty, not an image, or a sheet), the
\* final_frame_count of the frame budget and the answer of the grid estimate
\* the sheet of a call whose bytes hold none
NoImage == [w |-> 0, h |-> 0, rects |-> <<>>]

Jobs ==
    [bytes : {"empty", "garbage"}, canvas : {NoImage},
     expected_count : {MaxExpected}, answer : {FallbackGrid}]
    \cup [bytes : {"png"}, canvas : PipelineCanvases,
          expected_count : 1..MaxExpected, answer : GeminiAnswers]

Event(kind, arg) == [kind |-> kind, arg |-> arg]

\* the locals of run_stage_7 before its first statement; img_is_none tells
\* that img is None, extracted and was_normalized that result and normalized
\* are bound; entered keeps what the call found in self.state
NoLocals ==
    [img |-> NoImage, img_is_none |-> FALSE, hint |-> <<0, 0, 0>>,
     result |-> ResultOf(<<>>), extracted |-> FALSE,
     normalized |-> <<>>, was_normalized |-> FALSE,
     urls |-> <<>>, error |-> None,
     entered |-> [frame_urls |-> <<>>, pivots |-> <<>>, stage |-> "pending"]]

\* the locals once extract_frames_hybrid returned r or raised
ResultBound(l, r) ==
    IF r.raised = None THEN [l EXCEPT !.result = r, !.extracted = TRUE]
    ELSE [l EXCEPT !.error = r.raised]

\* the locals once normalize_frames returned n or raised
NormalizedBound(l, n) ==
    IF n.raised = None THEN [l EXCEPT !.normalized = n.images, !.was_normalized = TRUE]
    ELSE [l EXCEPT !.error = n.raised]

InitPipeline ==
    /\ entry = "run_stage_7"
    /\ inp = None
    /\ pc = None
    /\ contour = None
    /\ use_contour = None
    /\ rule = None
    /\ result = None
    /\ normalized = None
    /\ IdlePipeline
    /\ NoCallers
    /\ IdleFull

\* await self._notify_stage_start(7), outside the try block: the callback
\* returns, or raises and ends the call
NotifyStageStart ==
    /\ opc \in {"idle", "returned", "raised"}
    /\ \E j \in Jobs : job' = j
    /\ \/ /\ loc' = [NoLocals EXCEPT !.entered =
                        [frame_urls |-> frame_urls, pivots |-> pivots, stage |-> stages[7]]]
          /\ events' = <<Event("notify_start", 7)>>
          /\ opc' = "update_running"
       \/ /\ loc' = [NoLocals EXCEPT !.entered =
                        [frame_urls |-> frame_urls, pivots |-> pivots, stage |-> stages[7]],
                                      !.error = "CallbackError"]
          /\ events' = <<>>
          /\ opc' = "raised"
    /\ UNCHANGED <<stages, frame_urls, pivots>>
    /\ UNCHANGED engine_vars
    /\ UNCHANGED concurrent_vars
    /\ UNCHANGED full_vars

\* await self._update_stage(7, "running"), outside the try block: the stage
\* is replaced in self.state, then the state is saved, which can raise
UpdateStageRunning ==
    /\ opc = "update_running"
    /\ stages' = [stages EXCEPT ![7] = "running"]
    /\ \/ /\ events' = Append(events, Event("save_pipeline_state", 7))
          /\ loc' = loc
          /\ opc' = "decode"
       \/ /\ events' = events
          /\ loc' = [loc EXCEPT !.error = "RedisError"]
          /\ opc' = "raised"
    /\ UNCHANGED <<job, frame_urls, pivots>>
    /\ UNCHANGED engine_vars
    /\ UNCHANGED concurrent_vars
    /\ UNCHANGED full_vars

\* img = cv2.imdecode(nparr, cv2.IMREAD_COLOR): the sheet, or None for bytes
\* that are no image; an empty buffer fails the assertion of imdecode
DecodeImage ==
    /\ opc = "decode"
    /\ \/ /\ job.bytes = "png"
          /\ loc' = [loc EXCEPT !.img = job.canvas]
          /\ opc' = "detect_grid"
       \/ /\ job.bytes = "garbage"
          /\ loc' = [loc EXCEPT !.img_is_none = TRUE]
          /\ opc' = "detect_grid"
       \/ /\ job.bytes = "empty"
          /\ loc' = [loc EXCEPT !.error = "cv2.error"]
          /\ opc' = "except"
    /\ UNCHANGED <<job, stages, frame_urls, pivots, events>>
    /\ UNCHANGED engine_vars
    /\ UNCHANGED concurrent_vars
    /\ UNCHANGED full_vars

\* detected_rows, detected_cols, gemini_frame_count =
\*     await detect_grid_layout_with_gemini(spritesheet_bytes=spritesheet)
DetectGridLayout ==
    /\ opc = "detect_grid"
    /\ events' = Append(events, Event("gemini_request", 7))
    /\ loc' = [loc EXCEPT !.hint = job.answer]
    /\ opc' = "extract"
    /\ UNCHANGED <<job, stages, frame_urls, pivots>>
    /\ UNCHANGED engine_vars
    /\ UNCHANGED concurrent_vars
    /\ UNCHANGED full_vars

\* result = extract_frames_hybrid(grid_image=img, expected_count=..., ...);
\* for img = None count_sprites_by_contour raises on grid_image.shape
ExtractHybrid ==
    /\ opc = "extract"
    /\ loc' = ResultBound(loc,
                  IF loc.img_is_none THEN Raised("AttributeError")
                  ELSE extract_frames_hybrid(loc.img,
                           [expected_count |-> job.expected_count,
                            gemini_rows |-> loc.hint[1], gemini_cols |-> loc.hint[2],
                            gemini_frame_count |-> loc.hint[3],
                            action_type |-> unknown, apply_noise_removal |-> TRUE]))
    /\ opc' = IF loc'.error = None THEN "normalize" ELSE "except"
    /\ UNCHANGED <<job, stages, frame_urls, pivots, events>>
    /\ UNCHANGED engine_vars
    /\ UNCHANGED concurrent_vars
    /\ UNCHANGED full_vars

\* normalized = normalize_frames(result.frames, result.frame_width, result.frame_height)
NormalizeStage ==
    /\ opc = "normalize"
    /\ loc' = NormalizedBound(loc,
                  normalize_frames(loc.result.frames, loc.result.frame_width,
                                   loc.result.frame_height))
    /\ opc' = IF loc'.error = None THEN "upload" ELSE "except"
    /\ UNCHANGED <<job, stages, frame_urls, pivots, events>>
    /\ UNCHANGED engine_vars
    /\ UNCHANGED concurrent_vars
    /\ UNCHANGED full_vars

\* one iteration of  for i, frame in enumerate(normalized): the upload of
\* frame_{i:02d}.png, which the storage service can refuse
UploadFrame ==
    /\ opc = "upload"
    /\ Len(loc.urls) < Len(loc.normalized)
    /\ LET i == Len(loc.urls)
       IN  \/ /\ events' = Append(events, Event("upload_image", i))
              /\ loc' = [loc EXCEPT !.urls = Append(@, i)]
              /\ opc' = "upload"
           \/ /\ events' = events
              /\ loc' = [loc EXCEPT !.error = "StorageError"]
              /\ opc' = "except"
    /\ UNCHANGED <<job, stages, frame_urls, pivots>>
    /\ UNCHANGED engine_vars
    /\ UNCHANGED concurrent_vars
    /\ UNCHANGED full_vars

\* self.state.frame_urls = frame_urls;  self.state.pivots = [...]
StoreFrames ==
    /\ opc = "upload"
    /\ Len(loc.urls) = Len(loc.normalized)
    /\ frame_urls' = loc.urls
    /\ pivots' = loc.result.pivots
    /\ opc' = "update_completed"
    /\ UNCHANGED <<job, loc, stages, events>>
    /\ UNCHANGED engine_vars
    /\ UNCHANGED concurrent_vars
    /\ UNCHANGED full_vars

\* await self._update_stage(7, "completed", stage_result)
UpdateStageCompleted ==
    /\ opc = "update_completed"
    /\ stages' = [stages EXCEPT ![7] = "completed"]
    /\ \/ /\ events' = Append(events, Event("save_pipeline_state", 7))
          /\ loc' = loc
          /\ opc' = "notify_complete"
       \/ /\ events' = events
          /\ loc' = [loc EXCEPT !.error = "RedisError"]
          /\ opc' = "except"
    /\ UNCHANGED <<job, frame_urls, pivots>>
    /\ UNCHANGED engine_vars
    /\ UNCHANGED concurrent_vars
    /\ UNCHANGED full_vars

\* await self._notify_stage_complete(7, stage_result);  return [...]
NotifyStageComplete ==
    /\ opc = "notify_complete"
    /\ \/ /\ events' = Append(events, Event("notify_complete", 7))
          /\ loc' = loc
          /\ opc' = "returned"
       \/ /\ events' = events
          /\ loc' = [loc EXCEPT !.error = "CallbackError"]
          /\ opc' = "except"
    /\ UNCHANGED <<job, stages, frame_urls, pivots>>
    /\ UNCHANGED engine_vars
    /\ UNCHANGED concurrent_vars
    /\ UNCHANGED full_vars

\* except Exception as e:  await self._update_stage(7, "failed", error=str(e))
UpdateStageFailed ==
    /\ opc = "except"
    /\ stages' = [stages EXCEPT ![7] = "failed"]
    /\ \/ /\ events' = Append(events, Event("save_pipeline_state", 7))
          /\ loc' = loc
          /\ opc' = "notify_error"
       \/ /\ events' = events
          /\ loc' = [loc EXCEPT !.error = "RedisError"]
          /\ opc' = "raised"
    /\ UNCHANGED <<job, frame_urls, pivots>>
    /\ UNCHANGED engine_vars
    /\ UNCHANGED concurrent_vars
    /\ UNCHANGED full_vars

\* await self._notify_stage_error(7, str(e));  raise
NotifyStageError ==
    /\ opc = "notify_error"
    /\ \/ /\ events' = Append(events, Event("notify_error", 7))
          /\ loc' = loc
       \/ /\ events' = events
          /\ loc' = [loc EXCEPT !.error = "CallbackError"]
    /\ opc' = "raised"
    /\ UNCHANGED <<job, stages, frame_urls, pivots>>
    /\ UNCHANGED engine_vars
    /\ UNCHANGED concurrent_vars
    /\ UNCHANGED full_vars

NextPipeline ==
    \/ NotifyStageStart
    \/ UpdateStageRunning
    \/ DecodeImage
    \/ DetectGridLayout
    \/ ExtractHybrid
    \/ NormalizeStage
    \/ UploadFrame
    \/ StoreFrames
    \/ UpdateStageCompleted
    \/ NotifyStageComplete
    \/ UpdateStageFailed
    \/ NotifyStageError

SpecPipeline == InitPipeline /\ [][NextPipeline]_vars

---------------------------------------------------------------------------
(* extract_frames_hybrid called from several threads at once.  The function *)
(* reads and writes its arguments and local variables only; the module has  *)
(* no variable of its own.                                                  *)

\* the local variables of the call thread t is in, as the call reads them
\* when they are kept in one place for all threads
Local_Module(frames, t) == frames[1]

\* the local variables of the call thread t is in
Local(frames, t) == frames[t]

InitConcurrent ==
    /\ entry = "concurrent"
    /\ inp = None
    /\ pc = None
    /\ contour = None
    /\ use_contour = None
    /\ rule = None
    /\ result = None
    /\ normalized = None
    /\ IdlePipeline
    /\ NoCallers
    /\ IdleFull

\* thread t calls extract_frames_hybrid
CallHybrid(t) ==
    /\ calls[t].pc = "idle" /\ calls[t].k < CallBudget[t]
    /\ \E a \in ConcurrentCalls :
          calls' = [calls EXCEPT ![t] = [IdleCall(@.k + 1) EXCEPT !.pc = "called", !.args = a]]
    /\ UNCHANGED history
    /\ UNCHANGED engine_vars
    /\ UNCHANGED pipeline_vars
    /\ UNCHANGED full_vars

\* step 1 on thread t
ThreadCountSprites(t) ==
    /\ calls[t].pc = "called"
    /\ calls' = [calls EXCEPT ![t].pc = "counted",
                              ![t].contour =
                                  count_sprites_by_contour(Local(calls, t).args.canvas,
                                                           MinSpriteArea)]
    /\ UNCHANGED history
    /\ UNCHANGED engine_vars
    /\ UNCHANGED pipeline_vars
    /\ UNCHANGED full_vars

\* step 2 on thread t
ThreadArbitrate(t) ==
    /\ calls[t].pc = "counted"
    /\ calls' = [calls EXCEPT ![t].pc = "arbitrated",
                              ![t].use_contour =
                                  UseContour(Local(calls, t).args.expected_count,
                                             Local(calls, t).args.gemini_frame_count,
                                             Local(calls, t).contour.count)]
    /\ UNCHANGED history
    /\ UNCHANGED engine_vars
    /\ UNCHANGED pipeline_vars
    /\ UNCHANGED full_vars

\* step 3 on thread t, and the return to the caller
ThreadExtract(t) ==
    /\ calls[t].pc = "arbitrated"
    /\ LET l == Local(calls, t)
           r == HybridExtract(l.args.canvas, l.args, l.contour, l.use_contour)
       IN  history' = history \cup
               {[thread |-> t, k |-> calls[t].k,
                 expected_count |-> calls[t].args.expected_count,
                 gemini_frame_count |-> calls[t].args.gemini_frame_count,
                 contour_count |-> calls[t].contour.count,
                 path |-> IF TakesContourPath(l.use_contour, l.contour.count)
                          THEN "contour" ELSE "grid",
                 frames |-> Len(r.frames),
                 meanwhile |-> {u \in Threads \ {t} : calls[u].pc # "idle"}]}
    /\ calls' = [calls EXCEPT ![t] = IdleCall(@.k)]
    /\ UNCHANGED engine_vars
    /\ UNCHANGED pipeline_vars
    /\ UNCHANGED full_vars

NextConcurrent ==
    \/ \E t \in Threads : CallHybrid(t)
    \/ \E t \in Threads : ThreadCountSprites(t)
    \/ \E t \in Threads : ThreadArbitrate(t)
    \/ \E t \in Threads : ThreadExtract(t)

SpecConcurrent == InitConcurrent /\ [][NextConcurrent]_vars

---------------------------------------------------------------------------
(* PipelineOrchestrator.run_full_pipeline, await by await; the work of a   *)
(* stage between its two state updates is one step that succeeds or raises *)

\* the test at the head of the try block of run_stage_n
Prerequisite(n, st) ==
    CASE n = 3 -> st.character_dna
      [] n = 4 -> st.character_dna /\ st.frame_budget
      [] n = 5 -> st.intent_confirmed
      [] n = 6 -> st.animation_script
      [] OTHER -> TRUE

\* self.state after the assignments of run_stage_n
Produced(n, st) ==
    CASE n = 1 -> [st EXCEPT !.character_dna = TRUE]
      [] n = 3 -> [st EXCEPT !.frame_budget = TRUE]
      [] n = 5 -> [st EXCEPT !.animation_script = TRUE]
      [] OTHER -> st

Emit(n, kind) == [stage |-> n, kind |-> kind]

InitFullPipeline ==
    /\ entry = "run_full_pipeline"
    /\ inp = None
    /\ pc = None
    /\ contour = None
    /\ use_contour = None
    /\ rule = None
    /\ result = None
    /\ normalized = None
    /\ IdlePipeline
    /\ NoCallers
    /\ IdleFull

\* self.state.status = "running", then the call of run_stage_1
RunFullPipeline ==
    /\ full_pc.at \in {"idle", "returned", "raised"}
    /\ state' = [state EXCEPT !.status = "running"]
    /\ emitted' = <<>>
    /\ full_pc' = At(1, "notify_start")
    /\ UNCHANGED engine_vars
    /\ UNCHANGED pipeline_vars
    /\ UNCHANGED concurrent_vars

\* run_stage_n: await self._notify_stage_start(n), ahead of the try block; the
\* callback returns or raises
FullNotifyStageStart ==
    /\ full_pc.at = "notify_start"
    /\ \/ /\ emitted' = Append(emitted, Emit(full_pc.stage, "start"))
          /\ full_pc' = At(full_pc.stage, "update_running")
       \/ /\ emitted' = emitted
          /\ full_pc' = At(full_pc.stage, "except_pipeline")
    /\ UNCHANGED state
    /\ UNCHANGED engine_vars
    /\ UNCHANGED pipeline_vars
    /\ UNCHANGED concurrent_vars

\* run_stage_n: await self._update_stage(n, "running"), ahead of the try
\* block; the stage is replaced in self.state, then the save returns or raises
FullUpdateStageRunning ==
    /\ full_pc.at = "update_running"
    /\ state' = [state EXCEPT !.stages[full_pc.stage] = "running"]
    /\ \/ full_pc' = At(full_pc.stage, "body")
       \/ full_pc' = At(full_pc.stage, "except_pipeline")
    /\ UNCHANGED emitted
    /\ UNCHANGED engine_vars
    /\ UNCHANGED pipeline_vars
    /\ UNCHANGED concurrent_vars

\* run_stage_n: the try block up to its assignments to self.state; it raises
\* when the prerequisite is missing or a collaborator fails
FullStageBody ==
    /\ full_pc.at = "body"
    /\ \/ /\ Prerequisite(full_pc.stage, state)
          /\ state' = Produced(full_pc.stage, state)
          /\ full_pc' = At(full_pc.stage, "update_completed")
       \/ /\ state' = state
          /\ full_pc' = At(full_pc.stage, "except")
    /\ UNCHANGED emitted
    /\ UNCHANGED engine_vars
    /\ UNCHANGED pipeline_vars
    /\ UNCHANGED concurrent_vars

\* run_stage_n: await self._update_stage(n, "completed", result)
FullUpdateStageCompleted ==
    /\ full_pc.at = "update_completed"
    /\ state' = [state EXCEPT !.stages[full_pc.stage] = "completed"]
    /\ \/ full_pc' = At(full_pc.stage, "notify_complete")
       \/ full_pc' = At(full_pc.stage, "except")
    /\ UNCHANGED emitted
    /\ UNCHANGED engine_vars
    /\ UNCHANGED pipeline_vars
    /\ UNCHANGED concurrent_vars

\* run_stage_n: await self._notify_stage_complete(n, result);  return
FullNotifyStageComplete ==
    /\ full_pc.at = "notify_complete"
    /\ \/ /\ emitted' = Append(emitted, Emit(full_pc.stage, "complete"))
          /\ full_pc' = At(full_pc.stage, "return")
       \/ /\ emitted' = emitted
          /\ full_pc' = At(full_pc.stage, "except")
    /\ UNCHANGED state
    /\ UNCHANGED engine_vars
    /\ UNCHANGED pipeline_vars
    /\ UNCHANGED concurrent_vars

\* run_stage_n: except Exception:  await self._update_stage(n, "failed", ...)
FullUpdateStageFailed ==
    /\ full_pc.at = "except"
    /\ state' = [state EXCEPT !.stages[full_pc.stage] = "failed"]
    /\ \/ full_pc' = At(full_pc.stage, "notify_error")
       \/ full_pc' = At(full_pc.stage, "except_pipeline")
    /\ UNCHANGED emitted
    /\ UNCHANGED engine_vars
    /\ UNCHANGED pipeline_vars
    /\ UNCHANGED concurrent_vars

\* run_stage_n: await self._notify_stage_error(n, str(e));  raise
FullNotifyStageError ==
    /\ full_pc.at = "notify_error"
    /\ \/ emitted' = Append(emitted, Emit(full_pc.stage, "error"))
       \/ emitted' = emitted
    /\ full_pc' = At(full_pc.stage, "except_pipeline")
    /\ UNCHANGED state
    /\ UNCHANGED engine_vars
    /\ UNCHANGED pipeline_vars
    /\ UNCHANGED concurrent_vars

\* run_full_pipeline between two stages: dna_verified = True after stage 1,
\* await self.confirm_intent(True) after stage 4 (its save returns or raises),
\* status = "completed" after stage 7
ContinuePipeline ==
    /\ full_pc.at = "return"
    /\ \/ /\ full_pc.stage = 1
          /\ state' = [state EXCEPT !.dna_verified = TRUE]
          /\ full_pc' = At(3, "notify_start")
       \/ /\ full_pc.stage = 4
          /\ state' = [state EXCEPT !.intent_confirmed = TRUE]
          /\ \/ full_pc' = At(5, "notify_start")
             \/ full_pc' = At(4, "except_pipeline")
       \/ /\ full_pc.stage \in {3, 5, 6}
          /\ state' = state
          /\ full_pc' = At(full_pc.stage + 1, "notify_start")
       \/ /\ full_pc.stage = 7
          /\ state' = [state EXCEPT !.status = "completed"]
          /\ full_pc' = At(7, "returned")
    /\ UNCHANGED emitted
    /\ UNCHANGED engine_vars
    /\ UNCHANGED pipeline_vars
    /\ UNCHANGED concurrent_vars

\* run_full_pipeline: except Exception:  self.state.status = "failed";  raise
FailPipeline ==
    /\ full_pc.at = "except_pipeline"
    /\ state' = [state EXCEPT !.status = "failed"]
    /\ full_pc' = At(full_pc.stage, "raised")
    /\ UNCHANGED emitted
    /\ UNCHANGED engine_vars
    /\ UNCHANGED pipeline_vars
    /\ UNCHANGED concurrent_vars

NextFullPipeline ==
    \/ RunFullPipeline
    \/ FullNotifyStageStart
    \/ FullUpdateStageRunning
    \/ FullStageBody
    \/ FullUpdateStageCompleted
    \/ FullNotifyStageComplete
    \/ FullUpdateStageFailed
    \/ FullNotifyStageError
    \/ ContinuePipeline
    \/ FailPipeline

SpecFullPipeline == InitFullPipeline /\ [][NextFullPipeline]_vars

---------------------------------------------------------------------------
(* Properties of the orchestrator *)

Did(kind) == \E i \in 1..Len(events) : events[i].kind = kind

\* C6: when the spritesheet bytes cannot be decoded, the call fails right
\* after the decode step: it is on its failure path from then on, and no
\* grid-estimate request, extraction, normalisation or upload is performed.
C6_UndecodableFailsAtOnce ==
    (opc \notin {"idle", "update_running", "decode"} /\ job.bytes # "png") =>
        /\ opc \in {"except", "notify_error", "raised"}
        /\ ~Did("gemini_request")
        /\ ~Did("upload_image")
        /\ ~loc.extracted /\ ~loc.was_normalized

---------------------------------------------------------------------------
(* Properties of the engine *)

HybridDone ==
    entry = "extract_frames_hybrid" /\ pc \in {"returned", "raised", "normalized"}

GridDone ==
    entry = "extract_frames" /\ pc \in {"returned", "raised", "normalized"}

Extracted ==
    entry \in {"extract_frames_hybrid", "extract_frames"} /\ pc \in {"returned", "normalized"}

\* the extractor the arbitration table of the specification names: rule 1
\* sends to the grid, rules 2, 3 and 4 to the contours, rule 5 to the grid
ArbitrationTable(expected_count, gemini_count, contour_count) ==
    LET failed == 2 * contour_count < expected_count
        exact == contour_count = expected_count
        enough == 10 * contour_count >= 8 * expected_count
        closer == Abs(contour_count - expected_count) < Abs(gemini_count - expected_count)
        overcounted == 10 * gemini_count > 13 * expected_count
    IN  IF ~failed /\ (exact \/ (closer /\ enough) \/ (overcounted /\ enough))
        THEN "contour" ELSE "grid"

\* C1: for every expected_count >= 1 and all counts of the estimate and of the
\* contour detection, extract_frames_hybrid runs the extractor that the
\* five-rule table, evaluated in order, names.
C1_ArbitrationTable ==
    (HybridDone /\ inp.expected_count >= 1) =>
        result.path = ArbitrationTable(inp.expected_count, inp.gemini_frame_count,
                                       contour.count)

\* a call that only rule 4 sends to the contour extractor
C1_Witness ==
    /\ HybridDone /\ inp.expected_count >= 1
    /\ contour.count # inp.expected_count
    /\ ~(Abs(contour.count - inp.expected_count)
            < Abs(inp.gemini_frame_count - inp.expected_count))
    /\ result.path = "contour"

\* C2: a contour detection that finds no sprite or fewer than half of
\* expected_count is never surfaced as an error: extract_frames_hybrid
\* completes through the grid extractor and returns a result, whatever the
\* grid hint (rows, cols, frame_count).
C2_FallbackNeverRaises ==
    (HybridDone /\ 2 * contour.count < inp.expected_count) =>
        (result.path = "grid" /\ result.raised = None)

\* C3 as stated: whenever contour_count = expected_count, for every
\* expected_count >= 0, the contour extractor is used.
C3_ExactMatchAnyCount ==
    (HybridDone /\ contour.count = inp.expected_count) => result.path = "contour"

\* C3: whenever contour_count = expected_count and expected_count >= 1, and
\* whatever the grid estimate says, extract_frames_hybrid uses the contour
\* extractor and returns expected_count frames.
C3_ExactMatchPositive ==
    (HybridDone /\ contour.count = inp.expected_count /\ inp.expected_count >= 1) =>
        /\ result.path = "contour"
        /\ result.raised = None
        /\ Len(result.frames) = inp.expected_count

\* an exact match against an estimate that disagrees and offers no usable grid
C3_Witness ==
    /\ HybridDone /\ contour.count = inp.expected_count /\ inp.expected_count >= 2
    /\ inp.gemini_frame_count # inp.expected_count
    /\ inp.gemini_rows = 0
    /\ result.path = "contour"

\* C4: for any list of frames and any target size, normalize_frames returns as
\* many images as it was given frames, each target_w wide, target_h high and
\* of 4 channels.
C4_NormalizeShape ==
    (pc = "normalized") =>
        LET direct == entry = "normalize_frames"
            frames == IF direct THEN inp.frames ELSE result.frames
            target_w == IF direct THEN inp.target_w ELSE result.frame_width
            target_h == IF direct THEN inp.target_h ELSE result.frame_height
        IN  /\ normalized.raised = None
            /\ Len(normalized.images) = Len(frames)
            /\ \A i \in 1..Len(normalized.images) :
                   /\ normalized.images[i].w = target_w
                   /\ normalized.images[i].h = target_h
                   /\ normalized.images[i].channels = 4

\* two frames of different sizes, one airborne and one grounded, the first
\* larger than the target
C4_Witness ==
    /\ entry = "normalize_frames" /\ pc = "normalized"
    /\ Len(inp.frames) = 2
    /\ inp.frames[1].image.w > inp.target_w /\ inp.frames[1].image.h > inp.target_h
    /\ inp.frames[2].image.w < inp.frames[1].image.w
    /\ inp.target_w >= 1 /\ inp.target_h >= 1
    /\ Len(normalized.images) = 2
    /\ normalized.images[1].pasted

\* C5: the frames either extractor returns are in strictly increasing index
\* order, pivots[k] is the pivot of frames[k], and the k-th image of
\* normalize_frames is made from the k-th frame it was given.
C5_PlaybackOrder ==
    /\ Extracted =>
          /\ \A i \in 1..Len(result.frames) : \A j \in 1..Len(result.frames) :
                 i < j => result.frames[i].index < result.frames[j].index
          /\ Len(result.pivots) = Len(result.frames)
          /\ \A k \in 1..Len(result.frames) :
                 result.pivots[k] = <<result.frames[k].pivot_x, result.frames[k].pivot_y>>
    /\ (pc = "normalized") =>
          LET frames == IF entry = "normalize_frames" THEN inp.frames ELSE result.frames
          IN  /\ Len(normalized.images) = Len(frames)
              /\ \A k \in 1..Len(frames) : normalized.images[k].image = frames[k].image

\* a grid extraction that skipped a cell between two sprites and was normalised
C5_Witness ==
    /\ entry = "extract_frames" /\ pc = "normalized"
    /\ Len(result.frames) >= 2
    /\ result.frames[2].index > 1
    /\ result.frames[1].image # result.frames[2].image
    /\ Len(normalized.images) = Len(result.frames)

InUnitRange(p) == p[2] > 0 /\ 0 <= p[1] /\ p[1] <= p[2]

\* C7: for every mask, the empty ones included, and every action_type,
\* calculate_smart_pivot returns pivot_x and pivot_y within [0, 1]; so are the
\* pivots of the frames the extractors return.
C7_PivotInUnitRange ==
    /\ (entry = "calculate_smart_pivot" /\ pc = "returned") =>
          InUnitRange(result.pivot_x) /\ InUnitRange(result.pivot_y)
    /\ Extracted =>
          \A k \in 1..Len(result.frames) :
              InUnitRange(result.frames[k].pivot_x) /\ InUnitRange(result.frames[k].pivot_y)

\* an airborne pose whose pivot is the centroid of the mask, off the centre
C7_Witness ==
    /\ entry = "calculate_smart_pivot" /\ pc = "returned"
    /\ result.is_airborne
    /\ PixelCount(inp.mask.rects) > 0
    /\ 2 * result.pivot_y[1] # result.pivot_y[2]
    /\ result.pivot_y[1] > 0

\* the blobs of a sheet are well separated, and the area of each lies in the
\* band from max(1/64 of the sheet, min_sprite_area) to 1/4 of the sheet
SeparatedBlobsInBand(canvas) ==
    /\ \A i \in 1..Len(canvas.rects) :
           /\ Area(canvas.rects[i]) >= Max((canvas.w * canvas.h) \div 64, MinSpriteArea)
           /\ Area(canvas.rects[i]) <= (canvas.w * canvas.h) \div 4
    /\ \A i \in 1..Len(canvas.rects) : \A j \in 1..Len(canvas.rects) :
           i # j => ~Overlaps(canvas.rects[i],
                             Rect(canvas.rects[j].x - 2, canvas.rects[j].y - 2,
                                  canvas.rects[j].w + 4, canvas.rects[j].h + 4))

\* no box comes after one that lies wholly below it, nor after one to its
\* right at the same height
ReadingOrder(bboxes) ==
    \A i \in 1..Len(bboxes) : \A j \in 1..Len(bboxes) :
        i < j => /\ ~(bboxes[j].y + bboxes[j].h <= bboxes[i].y)
                 /\ (bboxes[j].y = bboxes[i].y => bboxes[i].x < bboxes[j].x)

\* C8: for a sheet of N well-separated blobs with areas inside the accepted
\* band, count_sprites_by_contour returns count = N with N bounding boxes,
\* listed top to bottom and left to right within a row.
C8_CountsSeparatedBlobs ==
    (entry = "extract_frames_hybrid" /\ pc # "called" /\ SeparatedBlobsInBand(inp.canvas)) =>
        /\ contour.count = Len(inp.canvas.rects)
        /\ Len(contour.bboxes) = contour.count
        /\ ReadingOrder(contour.bboxes)

\* the sprite of cell k of a grid sheet, on the sheet
TrueBox(canvas, k) ==
    Rect(40 * (k % canvas.cols) + canvas.sprite[1], 40 * (k \div canvas.cols) + canvas.sprite[2],
         canvas.sprite[3], canvas.sprite[4])

WithinPadding(frame, box) ==
    /\ Abs(frame.x - box.x) <= Padding
    /\ Abs(frame.y - box.y) <= Padding
    /\ Abs((frame.x + frame.width) - (box.x + box.w)) <= Padding
    /\ Abs((frame.y + frame.height) - (box.y + box.h)) <= Padding

\* C9: for a rows x cols sheet with one sprite (above the noise floor) in
\* every cell, extract_frames with expected_count = rows x cols returns
\* rows x cols frames, the k-th from cell k, each with a box within 5 px of
\* the sprite's bounding box on the sheet.
C9_GridRecoversCells ==
    ( /\ GridDone
      /\ inp.canvas.occ = 0..(inp.canvas.rows * inp.canvas.cols - 1)
      /\ inp.canvas.sprite[3] * inp.canvas.sprite[4] >= MinArea + 4
      /\ inp.expected_count = inp.canvas.rows * inp.canvas.cols ) =>
        /\ result.raised = None
        /\ Len(result.frames) = inp.canvas.rows * inp.canvas.cols
        /\ \A k \in 1..Len(result.frames) :
               /\ result.frames[k].index = k - 1
               /\ WithinPadding(result.frames[k], TrueBox(inp.canvas, k - 1))

\* the grid extract_frames ran on
GridUsed ==
    IF entry = "extract_frames" THEN <<inp.grid_rows, inp.grid_cols>>
    ELSE HybridGrid(inp.expected_count, inp.gemini_rows, inp.gemini_cols,
                    inp.gemini_frame_count)

GridPathDone ==
    /\ HybridDone \/ GridDone
    /\ result.path = "grid"

\* the cells with a foreground contour among the first
\* min(expected_count, rows x cols) cells in row-major order
NonEmptyCells ==
    LET rows == GridUsed[1]
        cols == GridUsed[2]
        cell_w == inp.canvas.w \div cols
        cell_h == inp.canvas.h \div rows
    IN  {k \in 0..(Min(inp.expected_count, rows * cols) - 1) :
            GridCell(inp.canvas, k \div cols, k % cols, cell_w, cell_h, cols,
                     inp.action_type, inp.apply_noise_removal) # <<>>}

---------------------------------------------------------------------------
(* The noise cleaner *)

NoiseDone == entry = "remove_noise" /\ pc = "returned"

\* the component of the input mask made of the pieces c has pixels left in
\* the cleaned mask
Survives(c, cleaned) ==
    \E d \in cleaned.comps : \E p \in c : \E q \in d : Overlaps(p, q)

\* C11: the noise cleaner (opening, closing, then small-component removal
\* with min_area) never removes a connected component of the input mask
\* whose area exceeds min_area
C11_LargeComponentsKept ==
    NoiseDone =>
        \A c \in inp.binary.comps :
            PixelCount(c) > inp.min_area => Survives(c, result)

---------------------------------------------------------------------------
(* The pivot policy *)

PivotDone == entry = "calculate_smart_pivot" /\ pc = "returned"

\* the foreground pixels of a mask, and those in the rows that lie wholly
\* within the bottom 15% of its height
MaskPixels(mask) ==
    {xy \in (0..(mask.w - 1)) \X (0..(mask.h - 1)) :
        \E r \in mask.rects : /\ r.x <= xy[1] /\ xy[1] < r.x + r.w
                              /\ r.y <= xy[2] /\ xy[2] < r.y + r.h}

BottomPixels(mask) == {xy \in MaskPixels(mask) : 100 * xy[2] >= 85 * mask.h}

\* more than 10% of the foreground pixels are in the bottom 15% of the rows
BottomHeavy(mask) ==
    10 * Cardinality(BottomPixels(mask)) > Cardinality(MaskPixels(mask))

HintsAirborne(action_type) ==
    \E a \in airborne_actions : Contains(Lower(action_type), a)

\* C12 as stated: calculate_smart_pivot classifies as grounded every mask
\* that has more than 10% of its foreground pixels in the bottom 15% of its
\* rows, whatever the action_type
C12_BottomHeavyGrounded ==
    (PivotDone /\ BottomHeavy(inp.mask)) => ~result.is_airborne

\* C12: calculate_smart_pivot classifies as grounded, with the pivot at the
\* bottom centre (0.5, 1.0), every mask that has more than 10% of its
\* foreground pixels in the bottom 15% of its rows, when the action_type
\* holds none of the airborne keywords
C12_BottomHeavyGroundedUnlessHinted ==
    (PivotDone /\ BottomHeavy(inp.mask) /\ ~HintsAirborne(inp.action_type)) =>
        /\ ~result.is_airborne
        /\ result.pivot_x = <<1, 2>>
        /\ result.pivot_y = <<1, 1>>

\* a grounded mask with less than half, and more than a tenth, of its pixels
\* in the bottom rows
C12_Witness ==
    /\ PivotDone
    /\ BottomHeavy(inp.mask)
    /\ ~HintsAirborne(inp.action_type)
    /\ 2 * Cardinality(BottomPixels(inp.mask)) < Cardinality(MaskPixels(inp.mask))
    /\ ~result.is_airborne

---------------------------------------------------------------------------
(* The arbitration scenarios *)

\* a finished call with expected_count = 6 and gemini_frame_count = 16 on a
\* sheet where the contour detector found 6 sprites
OvercountScenario ==
    /\ HybridDone
    /\ inp.expected_count = 6
    /\ inp.gemini_frame_count = 16
    /\ contour.count = 6

\* C13 as stated: with expected_count = 6, gemini_frame_count = 16 and
\* contour_count = 6 the arbitration selects the contour path through its
\* fourth rule (the estimate over-counted), and 6 frames are returned
C13_OvercountByRule4 ==
    OvercountScenario =>
        rule = 4 /\ result.path = "contour" /\ Len(result.frames) = 6

\* C13: with expected_count = 6, gemini_frame_count = 16 and contour_count = 6
\* the arbitration selects the contour path through its second rule (the
\* exact match, tested before the over-count), and 6 frames are returned
C13_OvercountByRule2 ==
    OvercountScenario =>
        /\ rule = 2
        /\ use_contour
        /\ result.path = "contour"
        /\ result.raised = None
        /\ Len(result.frames) = 6

C13_Witness ==
    /\ OvercountScenario
    /\ pc = "returned"
    /\ inp.gemini_rows * inp.gemini_cols = 16
    /\ Len(result.frames) = 6

---------------------------------------------------------------------------
(* Calls do not influence each other *)

SameTriple(a, b) ==
    /\ a.expected_count = b.expected_count
    /\ a.gemini_frame_count = b.gemini_frame_count
    /\ a.contour_count = b.contour_count

---------------------------------------------------------------------------
(* The strategy of the docstring, and the grid of the fallback *)

\* C15: extract_frames_hybrid follows the strategy of its docstring: the
\* contour count is compared with Gemini's count; when they match the grid
\* extractor is used, when they differ the contour extractor
C15_DocstringStrategy ==
    HybridDone =>
        (result.path = "grid" <=> contour.count = inp.gemini_frame_count)

\* C16: on the grid path the grid handed to extract_frames has
\* rows x cols >= expected_count: when gemini_rows x gemini_cols is less than
\* expected_count it is replaced by the square of side ceil(sqrt(expected_count))
C16_GridHoldsExpected ==
    (HybridDone /\ result.path = "grid") =>
        /\ result.grid[1] * result.grid[2] >= inp.expected_count
        /\ inp.gemini_rows * inp.gemini_cols < inp.expected_count =>
               result.grid = <<CeilSqrt(inp.expected_count), CeilSqrt(inp.expected_count)>>

\* C17: the frames extract_frames returns carry the indices 0 .. n-1 in
\* order, without gaps
C17_IndicesContiguous ==
    (Extracted /\ result.path = "grid") =>
        \A k \in 1..Len(result.frames) : result.frames[k].index = k - 1

---------------------------------------------------------------------------
(* The contour detector *)

Counted ==
    \/ entry = "extract_frames_hybrid" /\ pc # "called"
    \/ entry = "count_sprites_by_contour" /\ pc = "returned"

\* the components count_sprites_by_contour labels: the sheet thresholded,
\* without its lines, cleaned
LabelledComponents(canvas) ==
    remove_small_components(
        remove_noise_morphological(
            remove_grid_lines(Binary(canvas.w, canvas.h,
                                     Foreground(canvas, FullWindow(canvas))))),
        MinArea).comps

\* C18: every bounding box count_sprites_by_contour returns is that of a
\* component whose area is at least 1/64 and at most 1/4 of the area of the
\* canvas
C18_AreaBand ==
    Counted =>
        \A k \in 1..Len(contour.bboxes) :
            \E c \in LabelledComponents(inp.canvas) :
                /\ Stats(c).box = contour.bboxes[k]
                /\ 64 * Stats(c).area >= inp.canvas.w * inp.canvas.h
                /\ 4 * Stats(c).area <= inp.canvas.w * inp.canvas.h

\* C19: of two returned boxes whose tops differ by less than half the
\* average box height the left one comes first; of two whose tops differ by
\* more the upper one comes first
C19_RowMajorByHalfHeight ==
    Counted =>
        \A i \in 1..Len(contour.bboxes) : \A j \in 1..Len(contour.bboxes) :
            LET a == contour.bboxes[i]
                b == contour.bboxes[j]
                n == Len(contour.bboxes)
                total == Sum([k \in 1..n |-> contour.bboxes[k].h])
                same_row == 2 * n * Abs(a.y - b.y) < total
            IN  i < j => IF same_row THEN a.x <= b.x ELSE a.y < b.y

\* C20: the noise cleaner never merges components: no component of the
\* cleaned mask holds pixels of two components of the input mask, which are
\* not 8-connected to each other
C20_NeverMerges ==
    NoiseDone =>
        \A d \in result.comps :
            Cardinality({c \in inp.binary.comps :
                            \E p \in c : \E q \in d : Overlaps(p, q)}) <= 1

---------------------------------------------------------------------------
(* The pivot policy, both ways *)

\* fewer than 10% of the foreground pixels are in the bottom 15% of the rows
BottomLight(mask) ==
    10 * Cardinality(BottomPixels(mask)) < Cardinality(MaskPixels(mask))

\* C21 as stated: for masks of every size calculate_smart_pivot sets
\* is_airborne if and only if the action hint holds an airborne keyword or
\* fewer than 10% of the foreground pixels of the mask lie within the bottom
\* 15% of its height
C21_AirborneIffAnySize ==
    PivotDone =>
        (result.is_airborne <=>
            (HintsAirborne(inp.action_type) \/ BottomLight(inp.mask)))

\* C21: calculate_smart_pivot sets is_airborne if and only if the action
\* hint holds an airborne keyword, or the mask is at least 7 rows high (so
\* that 15% of its height is a whole row or more) and fewer than 10% of its
\* foreground pixels lie within the bottom 15% of its height; a lower mask
\* without a keyword is grounded whatever its pixels
C21_AirborneIffHighEnough ==
    PivotDone =>
        (result.is_airborne <=>
            (HintsAirborne(inp.action_type)
             \/ (15 * inp.mask.h >= 100 /\ BottomLight(inp.mask))))

\* a pose found airborne by its pixels alone
C21_Witness ==
    /\ PivotDone
    /\ ~HintsAirborne(inp.action_type)
    /\ 15 * inp.mask.h >= 100
    /\ BottomLight(inp.mask)
    /\ result.is_airborne

\* the sums of the x and of the y of the foreground pixels
SumX(mask) == SumOver(MaskPixels(mask), [xy \in MaskPixels(mask) |-> xy[1]])
SumY(mask) == SumOver(MaskPixels(mask), [xy \in MaskPixels(mask) |-> xy[2]])

\* the fraction p is  sum / (n * size)
IsMean(p, sum, n, size) == p[2] # 0 /\ p[1] * (n * size) = sum * p[2]

\* the pivot is the centre of mass of the mask, normalised by its size
AtCentreOfMass(r, mask) ==
    /\ Cardinality(MaskPixels(mask)) > 0
    /\ IsMean(r.pivot_x, SumX(mask), Cardinality(MaskPixels(mask)), mask.w)
    /\ IsMean(r.pivot_y, SumY(mask), Cardinality(MaskPixels(mask)), mask.h)

AtBottomCentre(r) == r.pivot_x = <<1, 2>> /\ r.pivot_y = <<1, 1>>

\* C22 as stated: calculate_smart_pivot returns (0.5, 1.0) exactly when it
\* classifies the mask as grounded, and the normalised centre of mass of the
\* mask whenever it classifies it as airborne
C22_PivotByPose ==
    PivotDone =>
        /\ AtBottomCentre(result) <=> ~result.is_airborne
        /\ result.is_airborne => AtCentreOfMass(result, inp.mask)

\* C22: calculate_smart_pivot returns (0.5, 1.0) exactly when it classifies
\* the mask as grounded; when it classifies it as airborne it returns the
\* normalised centre of mass of the mask if the mask has a foreground pixel,
\* and (0.5, 0.5) if it has none
C22_PivotByPoseAndMass ==
    PivotDone =>
        /\ AtBottomCentre(result) <=> ~result.is_airborne
        /\ result.is_airborne =>
              IF Cardinality(MaskPixels(inp.mask)) > 0
              THEN AtCentreOfMass(result, inp.mask)
              ELSE result.pivot_x = <<1, 2>> /\ result.pivot_y = <<1, 2>>

\* an airborne pose whose centre of mass lies off the diagonal
C22_Witness ==
    /\ PivotDone
    /\ result.is_airborne
    /\ AtCentreOfMass(result, inp.mask)
    /\ SumX(inp.mask) * inp.mask.h # SumY(inp.mask) * inp.mask.w
    /\ SumX(inp.mask) # SumY(inp.mask)

---------------------------------------------------------------------------
(* Border stripping *)

BordersDone == entry = "remove_frame_borders" /\ pc = "returned"

\* the grey level of the pixel (x, y) of a canvas
GreyAt(canvas, x, y) ==
    IF \E i \in 1..Len(canvas.rects) : Overlaps(canvas.rects[i], Rect(x, y, 1, 1))
    THEN canvas.rects[CHOOSE i \in 1..Len(canvas.rects) :
                          Overlaps(canvas.rects[i], Rect(x, y, 1, 1))].v
    ELSE White

\* the border test on the grey levels g[1..n] of a line: standard deviation
\* below 15 and mean below 80
PassesBorderTest(g) ==
    LET n == Len(g)
        S == Sum(g)
        Q == Sum([i \in 1..n |-> g[i] * g[i]])
    IN  n * Q - S * S < 15 * 15 * n * n /\ S < 80 * n

\* row k counted from the top (from the bottom) of a canvas, column k counted
\* from the left (from the right)
EdgeLine(canvas, edge, k) ==
    IF edge = "top" THEN [i \in 1..canvas.w |-> GreyAt(canvas, i - 1, k)]
    ELSE IF edge = "bottom"
         THEN [i \in 1..canvas.w |-> GreyAt(canvas, i - 1, canvas.h - 1 - k)]
    ELSE IF edge = "left" THEN [i \in 1..canvas.h |-> GreyAt(canvas, k, i - 1)]
    ELSE [i \in 1..canvas.h |-> GreyAt(canvas, canvas.w - 1 - k, i - 1)]

\* the length of the maximal run of lines at an edge, at most max_border_width
\* long, that all pass the border test
MaximalRun(canvas, edge) ==
    CHOOSE k \in 0..MaxBorderWidth :
        /\ \A i \in 0..(k - 1) : PassesBorderTest(EdgeLine(canvas, edge, i))
        /\ k = MaxBorderWidth \/ ~PassesBorderTest(EdgeLine(canvas, edge, k))

\* the cell without the maximal run of each of its four edges
WithoutMaximalRuns(canvas) ==
    Rect(MaximalRun(canvas, "left"), MaximalRun(canvas, "top"),
         canvas.w - MaximalRun(canvas, "left") - MaximalRun(canvas, "right"),
         canvas.h - MaximalRun(canvas, "top") - MaximalRun(canvas, "bottom"))

\* C23 as stated: for each of the four edges of a cell remove_frame_borders
\* removes exactly the maximal run of rows or columns that starts at the edge,
\* is at most max_border_width long and passes the border test throughout;
\* nothing beyond it, and nothing at all when no row or column qualifies
C23_MaximalRunsRemoved ==
    BordersDone => result = WithoutMaximalRuns(inp.canvas)

\* C23: for a cell at least 20 pixels wide and high remove_frame_borders
\* removes, at each of the four edges, exactly the maximal run of rows or
\* columns that starts at the edge, is at most max_border_width long and
\* passes the border test throughout, and nothing beyond it; a cell narrower
\* or lower than 20 pixels is returned unchanged
C23_MaximalRunsRemovedIfLarge ==
    BordersDone =>
        result = IF inp.canvas.w < 20 \/ inp.canvas.h < 20
                 THEN FullWindow(inp.canvas)
                 ELSE WithoutMaximalRuns(inp.canvas)

\* a frame thicker than max_border_width at the top and thinner at the left,
\* none at the right: five rows and two columns are removed
C23_Witness ==
    /\ BordersDone
    /\ inp.canvas.w >= 20
    /\ MaximalRun(inp.canvas, "top") = MaxBorderWidth
    /\ MaximalRun(inp.canvas, "left") = 2
    /\ MaximalRun(inp.canvas, "right") = 0
    /\ result.y = MaxBorderWidth /\ result.x = 2 /\ result.x + result.w = inp.canvas.w

\* the sprite's rectangle on the canvas when its left edge is put at
\* floor((target_w - w) / 2) and its top edge at target_h - h (grounded) or
\* floor((target_h - h) / 2) (airborne)
Placed(frame, target_w, target_h) ==
    Rect(FloorDiv(target_w - frame.image.w, 2),
         IF frame.is_airborne THEN FloorDiv(target_h - frame.image.h, 2)
         ELSE target_h - frame.image.h,
         frame.image.w, frame.image.h)

\* the pixels two rectangles share
Overlap(a, b) ==
    { p \in (a.x..(a.x + a.w - 1)) \X (a.y..(a.y + a.h - 1)) :
          /\ p[1] >= b.x /\ p[1] < b.x + b.w
          /\ p[2] >= b.y /\ p[2] < b.y + b.h }

PixelsOf(r) == (r.x..(r.x + r.w - 1)) \X (r.y..(r.y + r.h - 1))

Inside(r, w, h) == r.x >= 0 /\ r.y >= 0 /\ r.x + r.w <= w /\ r.y + r.h <= h

\* C24: for every sprite size and every positive target size, normalize_frames
\* raises nothing and copies exactly the part of the sprite that overlaps the
\* canvas when the sprite is placed with its left edge at floor((target_w - w)/2)
\* and its top edge at target_h - h (grounded) or floor((target_h - h)/2)
\* (airborne): the source rectangle lies inside the sprite, the destination
\* rectangle inside the canvas, and both have the same size.
C24_CopiesOverlap ==
    (entry = "normalize_frames" /\ pc = "normalized"
        /\ inp.target_w >= 1 /\ inp.target_h >= 1) =>
        /\ normalized.raised = None
        /\ Len(normalized.images) = Len(inp.frames)
        /\ \A i \in 1..Len(inp.frames) :
               LET frame == inp.frames[i]
                   out == normalized.images[i]
                   at == Placed(frame, inp.target_w, inp.target_h)
                   shared == Overlap(at, Rect(0, 0, inp.target_w, inp.target_h))
               IN  /\ out.pasted
                   /\ Inside(out.src, frame.image.w, frame.image.h)
                   /\ Inside(out.dst, inp.target_w, inp.target_h)
                   /\ out.src.w = out.dst.w /\ out.src.h = out.dst.h
                   /\ PixelsOf(out.dst) = shared
                   /\ out.src.x = out.dst.x - at.x
                   /\ out.src.y = out.dst.y - at.y

\* a grounded sprite wider and taller than the canvas, clipped on three sides,
\* followed by a smaller airborne sprite copied whole
C24_Witness ==
    /\ entry = "normalize_frames" /\ pc = "normalized"
    /\ inp.target_w = 1 /\ inp.target_h = 2
    /\ Len(inp.frames) = 2
    /\ ~inp.frames[1].is_airborne
    /\ inp.frames[1].image.w = 3 /\ inp.frames[1].image.h = 3
    /\ inp.frames[2].image.w = 1 /\ inp.frames[2].image.h = 1
    /\ normalized.raised = None
    /\ normalized.images[1].src = Rect(1, 1, 1, 2)
    /\ normalized.images[1].dst = Rect(0, 0, 1, 2)
    /\ normalized.images[2].src = Rect(0, 0, 1, 1)
    /\ normalized.images[2].dst = Rect(0, 0, 1, 1)

Matted == entry = "remove_white_background" /\ pc = "returned"

\* C25: in the image the threshold matte returns with threshold 240 and the
\* default 1-pixel feather, every pixel whose colour channels are all >= 240
\* has alpha 0.
C25_WhiteFullyTransparent ==
    (Matted /\ inp.threshold = WhiteThreshold /\ inp.feather = 1) =>
        \A p \in DOMAIN inp.image.pixels :
            is_white(inp.image.pixels[p], WhiteThreshold) => result.alpha[p] = 0

\* every pixel of a w x h image lies in one of the windows
Covered(windows, w, h) ==
    \A x \in 0..(w - 1) : \A y \in 0..(h - 1) :
        \E c \in windows : /\ c.x <= x /\ x < c.x + c.w
                           /\ c.y <= y /\ y < c.y + c.h

\* a strip of another size than tile_size * frame_count by tile_size is resized
\* and its frames cover it
StripResizedAndCovered ==
    (entry = "generate_animated_tile" /\ pc = "returned"
        /\ (inp.strip.w # inp.tile_size * inp.frame_count
               \/ inp.strip.h # inp.tile_size)) =>
       /\ result.resized
       /\ Covered({result.frames[i] : i \in 1..Len(result.frames)},
                  result.strip.w, result.strip.h)

\* C26: when the composite's pixel size is not the size the grid implies
\* (width not a multiple of cols, height not a multiple of rows, or a strip
\* that is not tile_size * frame_count by tile_size), extraction does not fail
\* and the rows x cols cells that are sliced cover the whole canvas.
C26_CellsCoverCanvas ==
    /\ (entry = "extract_frames" /\ pc \in {"returned", "raised"}
           /\ inp.grid_rows >= 1 /\ inp.grid_cols >= 1
           /\ inp.expected_count >= inp.grid_rows * inp.grid_cols
           /\ (inp.canvas.w % inp.grid_cols # 0 \/ inp.canvas.h % inp.grid_rows # 0)) =>
          /\ result.raised = None
          /\ Len(result.frames) = inp.grid_rows * inp.grid_cols
          /\ Covered(SlicedCells(inp.canvas, inp.grid_rows, inp.grid_cols),
                     inp.canvas.w, inp.canvas.h)
    /\ StripResizedAndCovered

ContourRan ==
    /\ entry = "extract_frames_hybrid" /\ pc \in {"returned", "raised", "normalized"}
    /\ result.path = "contour"

\* C27: whenever extract_frames_hybrid runs the contour extractor, the result
\* holds exactly contour_count frames, one per detected box, with the indices
\* 0..contour_count-1, and contour_count is greater than 0 and at least
\* 0.8 x expected_count.
C27_ContourFrameCount ==
    ContourRan =>
        /\ result.raised = None
        /\ Len(result.frames) = contour.count
        /\ Len(contour.bboxes) = contour.count
        /\ \A i \in 1..Len(result.frames) : result.frames[i].index = i - 1
        /\ contour.count > 0
        /\ 10 * contour.count >= 8 * inp.expected_count

\* the contour extractor returning more frames than were expected: three
\* sprites found where two were expected
C27_Witness ==
    /\ ContourRan
    /\ inp.expected_count = 2
    /\ contour.count = 3
    /\ Len(result.frames) = 3
    /\ result.frames[3].index = 2

\* C28: the image of every frame either extractor produces is no wider than
\* the frame's stored width and no higher than its stored height, and
\* normalising a result with its own frame_width and frame_height copies every
\* sprite whole to a place inside the canvas.
C28_SpritesFitOwnCanvas ==
    /\ Extracted =>
          \A i \in 1..Len(result.frames) :
              /\ result.frames[i].image.w <= result.frames[i].width
              /\ result.frames[i].image.h <= result.frames[i].height
              /\ result.frames[i].width <= result.frame_width
              /\ result.frames[i].height <= result.frame_height
    /\ (Extracted /\ pc = "normalized") =>
          /\ normalized.raised = None
          /\ Len(normalized.images) = Len(result.frames)
          /\ \A i \in 1..Len(result.frames) :
                 LET sprite == result.frames[i].image
                     out == normalized.images[i]
                 IN  /\ out.pasted
                     /\ out.src = Rect(0, 0, sprite.w, sprite.h)
                     /\ out.dst.w = sprite.w /\ out.dst.h = sprite.h
                     /\ Inside(out.dst, result.frame_width, result.frame_height)

\* a grid frame whose cell lost its drawn border, so that its image is lower
\* than its stored height, normalised with the result's own frame size
C28_Witness ==
    /\ Extracted /\ pc = "normalized"
    /\ \E j \in 1..Len(result.frames) :
           /\ result.frames[j].image.h < result.frames[j].height
           /\ result.frames[j].height = result.frame_height
           /\ normalized.images[j].src.h = result.frames[j].image.h
           /\ normalized.images[j].dst.h < result.frame_height

\* state.frame_urls and state.pivots have the same length at every moment
UrlsMatchPivots == Len(frame_urls) = Len(pivots)

\* C29: after any sequence of run_stage_7 calls, each failing at any step or
\* succeeding, state.frame_urls and state.pivots have the same length and, after
\* a call that returned, are those of that call; a call that raised left both
\* as it found them and left stage 7 recorded as failed; stage 7 is recorded as
\* completed only when the call returned normally.
C29_FailedCallLeavesState ==
    /\ UrlsMatchPivots
    /\ opc = "returned" =>
          /\ frame_urls = loc.urls
          /\ pivots = loc.result.pivots
          /\ stages[7] = "completed"
    /\ opc = "raised" =>
          /\ frame_urls = loc.entered.frame_urls
          /\ pivots = loc.entered.pivots
          /\ stages[7] = "failed"
    /\ (opc \in {"returned", "raised"} /\ stages[7] = "completed") => opc = "returned"

\* place of stage n in the order of run_full_pipeline
Rank(n) == CHOOSE i \in 1..Len(StageOrder) : StageOrder[i] = n

\* the kinds on_stage_update was given for stage n, in order
KindsOf(n) ==
    LET RECURSIVE From(_)
        From(i) == IF i > Len(emitted) THEN <<>>
                   ELSE IF emitted[i].stage = n THEN <<emitted[i].kind>> \o From(i + 1)
                   ELSE From(i + 1)
    IN  From(1)

FullAtRest == full_pc.at \in {"returned", "raised"}

\* the stages start in the order 1, 3, 4, 5, 6, 7, each one after every earlier
\* one started and was recorded completed
StartsInOrder ==
    \A j \in 1..Len(emitted) :
        emitted[j].kind = "start" =>
            \A m \in 1..(Rank(emitted[j].stage) - 1) :
                /\ \E i \in 1..(j - 1) : emitted[i] = Emit(StageOrder[m], "start")
                /\ state.stages[StageOrder[m]] = "completed"

\* a stage emits start and then exactly one of complete and error
OneOutcomePerStage ==
    \A k \in 1..Len(StageOrder) :
        LET kinds == KindsOf(StageOrder[k])
        IN  /\ kinds \in {<<>>, <<"start">>, <<"start", "complete">>, <<"start", "error">>}
            /\ FullAtRest => kinds # <<"start">>

\* at the first stage that fails no later stage is started, the status becomes
\* failed and the call raises
FailureStopsPipeline ==
    /\ \A i \in 1..Len(emitted) :
           emitted[i].kind = "error" =>
               /\ i = Len(emitted)
               /\ full_pc.at \in {"except_pipeline", "raised"}
    /\ full_pc.at = "raised" => state.status = "failed"

\* the status becomes completed only if stage 7 completed
CompletedOnlyAfterStage7 ==
    /\ state.status = "completed" => state.stages[7] = "completed"
    /\ full_pc.at = "returned" => state.status = "completed"

\* C30: in run_full_pipeline the stages start strictly in the order 1, 3, 4, 5,
\* 6, 7 and a stage starts only after every earlier one was recorded completed;
\* each stage emits start and then exactly one of complete or error; at the
\* first stage that fails no later stage is started, the status becomes failed
\* and the exception propagates; the status becomes completed only if stage 7
\* completed.
C30_OrderedStagesOneOutcome ==
    /\ StartsInOrder
    /\ OneOutcomePerStage
    /\ FailureStopsPipeline
    /\ CompletedOnlyAfterStage7

=============================================================================
